---------------------------- MODULE Spec2Model ----------------------------
(***************************************************************************)
(* Connection lifecycle of the Bartolome BLE toolkit.                      *)
(*                                                                         *)
(* Part I models pkg/ble/manager.go (ble.Manager): ConnectDevices, the     *)
(* connectionManager loop, discoverAndConnectDevices with its scan         *)
(* goroutine and scan callback, connectToDevice, the connect/disconnect    *)
(* observer of setupDisconnectMonitoring, and Close.  Part II models the   *)
(* adapter-enable guard of bluetooth_connector, Part III its discovery     *)
(* (run_scan, process_device_connection, the scan restarts) and its        *)
(* disconnect listener, Part IV the notification delivery of one connected *)
(* device of the Manager.  Each part has a specification of its own at the *)
(* end of the module.                                                      *)
(*                                                                         *)
(* The BLE adapter (tinygo.org/x/bluetooth) is the environment.  Its Scan  *)
(* call blocks until StopScan; the scan callback runs on the adapter's own *)
(* thread, one invocation at a time.  Whether Scan returns before or after *)
(* the callback that called StopScan has returned depends on the platform  *)
(* (CoreBluetooth delivers on a delegate thread, BlueZ inside the Scan     *)
(* loop), so the return of Scan is a step of its own that may come at any  *)
(* time after StopScan.  Sleeps and timeouts are untimed steps.            *)
(***************************************************************************)
EXTENDS Integers, Sequences, FiniteSets, TLC

----------------------------------------------------------------------------
(* Bounds of the model *)

\* discovery runs the connectionManager loop may start
MaxRuns == 2

\* peripheral handles adapter.Connect may return
MaxHandles == 2

\* discovery runs and peripheral handles explored where only the connect
\* handler and the paths that lead to it are followed
MaxObserverRuns == 3

MaxObserverHandles == 3

\* Close calls explored
MaxCloses == 2

----------------------------------------------------------------------------
(* Program constants *)

\* capacity of the run's disconnect channel, make(chan error, 1)
DisconnectChanCap == 1

(* The configured descriptors (m.configs): name and service UUID. *)
Configs ==
  << [Name |-> "pen",     ServiceUUID |-> "svcPen"],
     [Name |-> "tracker", ServiceUUID |-> "svcTrk"] >>

NumConfigs == Len(Configs)

ConfigNames == { Configs[i].Name : i \in 1..NumConfigs }

(* What the peripheral at an address advertises (bluetooth.ScanResult):   *)
(* 1 advertises the pen's service UUID under another local name, 2 only   *)
(* the tracker's name (no service UUID in the advertisement), 3 nothing   *)
(* that is configured.                                                     *)
Addresses == { "addr1", "addr2", "addr3" }

ScanResult(a) ==
  CASE a = "addr1" -> [Address |-> a, LocalName |-> "Columbus", UUIDs |-> {"svcPen"}]
    [] a = "addr2" -> [Address |-> a, LocalName |-> "tracker",  UUIDs |-> {}]
    [] OTHER       -> [Address |-> a, LocalName |-> "",         UUIDs |-> {"svcOther"}]

----------------------------------------------------------------------------
VARIABLES
  connectCalls,   \* calls of ConnectDevices so far
  enableCalls,    \* calls of adapter.Enable made by enableAdapter
  managerTasks,   \* connectionManager goroutines started
  running,        \* m.running
  stopChannel,    \* number of values buffered in m.stopChannel (cap 1)
  devices,        \* m.devices: the live-set, a set of ConnectedDevice records
  mgrPc,          \* position of the connectionManager goroutine
  run,            \* number of the current discovery run
  lastEnd,        \* select case on which the last run returned
  runFailed,      \* a per-device step failed during the current run
  devicesFound,   \* buffer of the current run's devicesFound channel
  foundClosed,    \* runs whose devicesFound channel has been closed
  errChannel,     \* number of errors buffered in the current run's errChannel
  scanActive,     \* run whose adapter scan is active, 0 when none
  scanBlocked,    \* runs whose scan goroutine is still inside adapter.Scan
  cb,             \* the scan callback invocation in progress
  handleAddr,     \* address of each peripheral handle adapter.Connect returned
  linkUp,         \* handles whose link is up
  disconnectCalls,\* per handle: calls of Device.Disconnect
  cancelCalls,    \* per handle: calls of ConnectedDevice.cancel
  tasks,          \* handles for which handleNotifications was started
  observer,       \* run whose connect handler is registered, 0 when none
  disconnectChannel, \* per run: buffer of the run's disconnect channel
  ob,             \* the connect-handler invocation in progress
  handlerCalls,   \* per handle: calls of m.disconnectHandler for its device
  signals,        \* per handle: sends on a disconnect channel for its device
  closePc,        \* position of the task executing Close
  closeCalls,     \* per call of Close so far: the value of m.running it found
  lockedOps,      \* blocking adapter operations performed while m.mu was held
  panicked        \* the process died of a send on a closed channel

vars ==
  << connectCalls, enableCalls, managerTasks, running, stopChannel, devices,
     mgrPc, run, lastEnd, runFailed, devicesFound, foundClosed, errChannel,
     scanActive, scanBlocked, cb, handleAddr, linkUp, disconnectCalls,
     cancelCalls, tasks, observer, disconnectChannel, ob, handlerCalls,
     signals, closePc, closeCalls, lockedOps, panicked >>

callVars == << connectCalls, enableCalls, managerTasks >>

closeVars == << closePc, closeCalls, lockedOps >>

runVars == << mgrPc, run, lastEnd, runFailed >>

chanVars == << devicesFound, foundClosed, errChannel >>

scanVars == << scanActive, scanBlocked >>

handleVars == << handleAddr, linkUp, disconnectCalls, cancelCalls, tasks >>

obsVars == << observer, disconnectChannel, ob, handlerCalls, signals >>

Runs == 1..(IF MaxRuns > MaxObserverRuns THEN MaxRuns ELSE MaxObserverRuns)

Handles == 1..(IF MaxHandles > MaxObserverHandles THEN MaxHandles ELSE MaxObserverHandles)

IdleCb == [pc |-> "idle", run |-> 0, addr |-> "", cfg |-> 0, handle |-> 0, err |-> "none"]

NoDevice == [Name |-> "", Address |-> "", Handle |-> 0]

IdleOb == [pc |-> "idle", run |-> 0, dev |-> NoDevice]

\* NewManager: the state of a fresh Manager
NewManager ==
  /\ connectCalls = 0
  /\ enableCalls = 0
  /\ managerTasks = 0
  /\ running = FALSE
  /\ stopChannel = 0
  /\ devices = {}
  /\ mgrPc = "none"
  /\ run = 0
  /\ lastEnd = "none"
  /\ runFailed = FALSE
  /\ devicesFound = << >>
  /\ foundClosed = {}
  /\ errChannel = 0
  /\ scanActive = 0
  /\ scanBlocked = {}
  /\ cb = IdleCb
  /\ handleAddr = << >>
  /\ linkUp = {}
  /\ disconnectCalls = [h \in Handles |-> 0]
  /\ cancelCalls = [h \in Handles |-> 0]
  /\ tasks = {}
  /\ observer = 0
  /\ disconnectChannel = [r \in Runs |-> << >>]
  /\ ob = IdleOb
  /\ handlerCalls = [h \in Handles |-> 0]
  /\ signals = [h \in Handles |-> 0]
  /\ closePc = "idle"
  /\ closeCalls = << >>
  /\ lockedOps = {}
  /\ panicked = FALSE

----------------------------------------------------------------------------
(* Helpers *)

\* m.devices[name] = d: a Go map holds one value per key
MapPut(m, d) == { e \in m : e.Name # d.Name } \cup { d }

\* delete(m.devices, name)
MapDelete(m, name) == { e \in m : e.Name # name }

\* _, exists := m.devices[name]
Range(f) == { f[i] : i \in DOMAIN f }

MapHas(m, name) == \E e \in m : e.Name = name

\* findDeviceConfig: index of the first descriptor, in order, whose service
\* UUID is advertised or whose name equals the non-empty advertised name;
\* 0 when there is none
ConfigMatchesIn(configs, i, result) ==
  \/ configs[i].ServiceUUID \in result.UUIDs
  \/ (result.LocalName # "" /\ configs[i].Name = result.LocalName)

ConfigMatches(i, result) == ConfigMatchesIn(Configs, i, result)

\* the loop of findDeviceConfig over a descriptor list m.configs
findDeviceConfigIn(configs, result) ==
  IF \E i \in 1..Len(configs) : ConfigMatchesIn(configs, i, result)
  THEN CHOOSE i \in 1..Len(configs) :
         /\ ConfigMatchesIn(configs, i, result)
         /\ \A j \in 1..(i - 1) : ~ConfigMatchesIn(configs, j, result)
  ELSE 0

findDeviceConfig(result) == findDeviceConfigIn(Configs, result)

\* mutant: the device is named after the advertised local name
NewConnectedDeviceByLocalName(cfg, a, h) ==
  [Name |-> ScanResult(a).LocalName, Address |-> a, Handle |-> h]

\* connectedDevice := &ConnectedDevice{Name: config.Name, Address: result.Address, ...}
NewConnectedDevice(cfg, a, h) ==
  [Name |-> Configs[cfg].Name, Address |-> a, Handle |-> h]

----------------------------------------------------------------------------
(* ConnectDevices and enableAdapter *)

\* adapter.Enable fails: ConnectDevices returns the error and starts nothing
ConnectDevicesFail(limit) ==
  /\ ~panicked
  /\ connectCalls < limit
  /\ connectCalls' = connectCalls + 1
  /\ running' = TRUE
  /\ enableCalls' = enableCalls + 1
  /\ UNCHANGED << managerTasks, stopChannel, devices, cb, panicked, closeVars,
                  runVars, chanVars, scanVars, handleVars, obsVars >>

\* adapter.Enable succeeds: go m.connectionManager()
ConnectDevicesOk(limit) ==
  /\ ~panicked
  /\ connectCalls < limit
  /\ connectCalls' = connectCalls + 1
  /\ running' = TRUE
  /\ enableCalls' = enableCalls + 1
  /\ managerTasks' = managerTasks + 1
  /\ mgrPc' = IF mgrPc = "none" THEN "top" ELSE mgrPc
  /\ UNCHANGED << run, lastEnd, runFailed, stopChannel, devices, cb, panicked,
                  closeVars, chanVars, scanVars, handleVars, obsVars >>

----------------------------------------------------------------------------
(* connectionManager *)

\* loop head: case <-m.stopChannel: return
ManagerStopAtTop ==
  /\ ~panicked
  /\ mgrPc = "top"
  /\ stopChannel > 0
  /\ stopChannel' = stopChannel - 1
  /\ mgrPc' = "stopped"
  /\ UNCHANGED << run, lastEnd, runFailed, running, devices, cb, panicked,
                  callVars, closeVars, chanVars, scanVars, handleVars, obsVars >>

\* loop head, default case: discoverAndConnectDevices starts with fresh
\* devicesFound and errChannel channels; the scan goroutine calls adapter.Scan
StartDiscoveryWithin(maxRuns) ==
  /\ ~panicked
  /\ mgrPc = "top"
  /\ stopChannel = 0
  /\ run < maxRuns
  /\ run' = run + 1
  /\ mgrPc' = "collect"
  /\ runFailed' = FALSE
  /\ lastEnd' = "none"
  /\ devicesFound' = << >>
  /\ errChannel' = 0
  /\ scanActive' = run + 1
  /\ scanBlocked' = scanBlocked \cup { run + 1 }
  /\ UNCHANGED << foundClosed, running, stopChannel, devices, cb, panicked,
                  callVars, closeVars, handleVars, obsVars >>

StartDiscovery == StartDiscoveryWithin(MaxRuns)

\* time.Sleep(10 * time.Second); continue.  No scan is active while the
\* manager sleeps, so a callback still in its 500 ms pause entered it before
\* the sleep began and leaves it before the sleep ends.
RetrySleep ==
  /\ ~panicked
  /\ mgrPc = "retry"
  /\ cb.pc # "settle"
  /\ mgrPc' = "top"
  /\ UNCHANGED << run, lastEnd, runFailed, running, stopChannel, devices, cb,
                  panicked, callVars, closeVars, chanVars, scanVars, handleVars,
                  obsVars >>

\* mutant: a handler that is registered already is kept
setupDisconnectMonitoringKeepsFirst ==
  /\ ~panicked
  /\ mgrPc = "setup"
  /\ observer' = IF observer = 0 THEN run ELSE observer
  /\ mgrPc' = "monitor"
  /\ UNCHANGED << run, lastEnd, runFailed, running, stopChannel, devices, cb,
                  panicked, callVars, closeVars, chanVars, scanVars, handleVars,
                  disconnectChannel, ob, handlerCalls, signals >>

\* disconnectChannel := m.setupDisconnectMonitoring(): a fresh channel, and
\* the adapter's connect handler replaced by one that closes over it
setupDisconnectMonitoring ==
  /\ ~panicked
  /\ mgrPc = "setup"
  /\ observer' = run
  /\ mgrPc' = "monitor"
  /\ UNCHANGED << run, lastEnd, runFailed, running, stopChannel, devices, cb,
                  panicked, callVars, closeVars, chanVars, scanVars, handleVars,
                  disconnectChannel, ob, handlerCalls, signals >>

\* select { case <-m.stopChannel: return
MonitorStop ==
  /\ ~panicked
  /\ mgrPc = "monitor"
  /\ stopChannel > 0
  /\ stopChannel' = stopChannel - 1
  /\ mgrPc' = "stopped"
  /\ UNCHANGED << run, lastEnd, runFailed, running, devices, cb, panicked,
                  callVars, closeVars, chanVars, scanVars, handleVars, obsVars >>

\* case err := <-disconnectChannel:
MonitorDisconnect ==
  /\ ~panicked
  /\ mgrPc = "monitor"
  /\ disconnectChannel[run] # << >>
  /\ disconnectChannel' = [disconnectChannel EXCEPT ![run] = Tail(@)]
  /\ mgrPc' = "reconnect"
  /\ UNCHANGED << run, lastEnd, runFailed, running, stopChannel, devices, cb,
                  panicked, callVars, closeVars, chanVars, scanVars, handleVars,
                  observer, ob, handlerCalls, signals >>

\* time.Sleep(3 * time.Second), then the loop head
ReconnectSleep ==
  /\ ~panicked
  /\ mgrPc = "reconnect"
  /\ cb.pc # "settle"
  /\ mgrPc' = "top"
  /\ UNCHANGED << run, lastEnd, runFailed, running, stopChannel, devices, cb,
                  panicked, callVars, closeVars, chanVars, scanVars, handleVars,
                  obsVars >>

----------------------------------------------------------------------------
(* discoverAndConnectDevices: the scan goroutine *)

\* adapter.Scan returns nil after StopScan; the deferred close(devicesFound)
ScanReturns(r) ==
  /\ ~panicked
  /\ r \in scanBlocked
  /\ scanActive # r
  /\ scanBlocked' = scanBlocked \ { r }
  /\ foundClosed' = foundClosed \cup { r }
  /\ UNCHANGED << scanActive, devicesFound, errChannel, running, stopChannel,
                  devices, cb, panicked, callVars, closeVars, runVars,
                  handleVars, obsVars >>

\* adapter.Scan returns an error: errChannel <- err (never full: one send
\* per run), then the deferred close(devicesFound)
ScanFails(r) ==
  /\ ~panicked
  /\ scanActive = r
  /\ cb.pc = "idle"
  /\ scanActive' = 0
  /\ scanBlocked' = scanBlocked \ { r }
  /\ errChannel' = 1
  /\ foundClosed' = foundClosed \cup { r }
  /\ UNCHANGED << devicesFound, running, stopChannel, devices, cb, panicked,
                  callVars, closeVars, runVars, handleVars, obsVars >>

----------------------------------------------------------------------------
(* discoverAndConnectDevices: the collecting loop *)

\* case device, ok := <-devicesFound with ok: m.devices[device.Name] = device;
\* with all descriptors connected StopScan and return nil
CollectDevice ==
  /\ ~panicked
  /\ mgrPc = "collect"
  /\ devicesFound # << >>
  /\ LET d == Head(devicesFound)
         after == MapPut(devices, d)
     IN /\ devices' = after
        /\ devicesFound' = Tail(devicesFound)
        /\ IF Cardinality(after) >= NumConfigs
           THEN /\ scanActive' = 0
                /\ mgrPc' = "setup"
                /\ lastEnd' = "all"
           ELSE UNCHANGED << scanActive, mgrPc, lastEnd >>
  /\ UNCHANGED << run, runFailed, foundClosed, errChannel, scanBlocked,
                  running, stopChannel, cb, panicked, callVars, closeVars,
                  handleVars, obsVars >>

\* case device, ok := <-devicesFound with !ok: the scan is over
CollectClosed ==
  /\ ~panicked
  /\ mgrPc = "collect"
  /\ devicesFound = << >>
  /\ run \in foundClosed
  /\ mgrPc' = IF Cardinality(devices) = 0 THEN "retry" ELSE "setup"
  /\ lastEnd' = "closed"
  /\ UNCHANGED << run, runFailed, running, stopChannel, devices, cb, panicked,
                  callVars, closeVars, chanVars, scanVars, handleVars, obsVars >>

\* case err := <-errChannel: StopScan, return err
CollectError ==
  /\ ~panicked
  /\ mgrPc = "collect"
  /\ errChannel > 0
  /\ errChannel' = 0
  /\ scanActive' = 0
  /\ mgrPc' = "retry"
  /\ lastEnd' = "error"
  /\ UNCHANGED << run, runFailed, devicesFound, foundClosed, scanBlocked,
                  running, stopChannel, devices, cb, panicked, callVars,
                  closeVars, handleVars, obsVars >>

\* mutant: a timeout with fewer than all descriptors connected is an error
CollectTimeoutPartialIsError ==
  /\ ~panicked
  /\ mgrPc = "collect"
  /\ scanActive' = 0
  /\ mgrPc' = IF Cardinality(devices) < NumConfigs THEN "retry" ELSE "setup"
  /\ lastEnd' = "timeout"
  /\ UNCHANGED << run, runFailed, scanBlocked, running, stopChannel, devices,
                  cb, panicked, callVars, closeVars, chanVars, handleVars,
                  obsVars >>

\* case <-ctx.Done(): StopScan; an error iff the live-set is empty
CollectTimeout ==
  /\ ~panicked
  /\ mgrPc = "collect"
  /\ scanActive' = 0
  /\ mgrPc' = IF Cardinality(devices) = 0 THEN "retry" ELSE "setup"
  /\ lastEnd' = "timeout"
  /\ UNCHANGED << run, runFailed, scanBlocked, running, stopChannel, devices,
                  cb, panicked, callVars, closeVars, chanVars, handleVars,
                  obsVars >>

----------------------------------------------------------------------------
(* The scan callback: processDiscoveredDevice and connectToDevice *)

\* The adapter reports the peripheral at address a.  processDiscoveredDevice
\* returns nil and changes nothing when no descriptor matches or the matched
\* descriptor is in the live-set; otherwise it calls StopScan before it
\* connects.
processDiscoveredDevice(a) ==
  /\ ~panicked
  /\ scanActive # 0
  /\ cb.pc = "idle"
  /\ LET cfg == findDeviceConfig(ScanResult(a))
     IN /\ cfg # 0
        /\ ~MapHas(devices, Configs[cfg].Name)
        /\ cb' = [pc |-> "settle", run |-> scanActive, addr |-> a, cfg |-> cfg,
                  handle |-> 0, err |-> "none"]
  /\ scanActive' = 0
  /\ UNCHANGED << scanBlocked, running, stopChannel, devices, panicked,
                  callVars, closeVars, runVars, chanVars, handleVars, obsVars >>

\* time.Sleep(500ms), then adapter.Connect is invoked
ConnectBegin ==
  /\ ~panicked
  /\ cb.pc = "settle"
  /\ cb' = [cb EXCEPT !.pc = "connecting"]
  /\ UNCHANGED << running, stopChannel, devices, panicked, callVars, closeVars,
                  runVars, chanVars, scanVars, handleVars, obsVars >>

\* adapter.Connect returns an error: connectToDevice returns "connection failed"
ConnectFails ==
  /\ ~panicked
  /\ cb.pc = "connecting"
  /\ cb' = [cb EXCEPT !.pc = "failed", !.err = "connect"]
  /\ runFailed' = (runFailed \/ cb.run = run)
  /\ UNCHANGED << mgrPc, run, lastEnd, running, stopChannel, devices, panicked,
                  callVars, closeVars, chanVars, scanVars, handleVars, obsVars >>

\* adapter.Connect returns a handle
ConnectSucceedsWithin(maxHandles) ==
  /\ ~panicked
  /\ cb.pc = "connecting"
  /\ Len(handleAddr) < maxHandles
  /\ handleAddr' = Append(handleAddr, cb.addr)
  /\ linkUp' = linkUp \cup { Len(handleAddr) + 1 }
  /\ cb' = [cb EXCEPT !.pc = "services", !.handle = Len(handleAddr) + 1]
  /\ UNCHANGED << disconnectCalls, cancelCalls, tasks, running, stopChannel,
                  devices, panicked, callVars, closeVars, runVars, chanVars,
                  scanVars, obsVars >>

ConnectSucceeds == ConnectSucceedsWithin(MaxHandles)

\* mutant: the error is returned without device.Disconnect()
FailAfterConnectKeepsHandle(e) ==
  /\ cb' = [cb EXCEPT !.pc = "failed", !.err = e]
  /\ runFailed' = (runFailed \/ cb.run = run)
  /\ UNCHANGED << handleAddr, linkUp, disconnectCalls, cancelCalls, tasks,
                  mgrPc, run, lastEnd, running, stopChannel, devices, panicked,
                  callVars, closeVars, chanVars, scanVars, obsVars >>

\* mutant: the error (or the empty result) is noted and the sequence goes on
FailAfterConnectGoesOn(e) ==
  /\ cb' = [cb EXCEPT !.err = e,
                      !.pc = CASE cb.pc = "services" -> "characteristics"
                               [] cb.pc = "characteristics" -> "notifications"
                               [] OTHER -> "send"]
  /\ tasks' = IF cb.pc = "notifications" THEN tasks \cup { cb.handle } ELSE tasks
  /\ runFailed' = (runFailed \/ cb.run = run)
  /\ UNCHANGED << handleAddr, linkUp, disconnectCalls, cancelCalls,
                  mgrPc, run, lastEnd, running, stopChannel, devices, panicked,
                  callVars, closeVars, chanVars, scanVars, obsVars >>

\* A step of connectToDevice after adapter.Connect fails with error e:
\* device.Disconnect(), return nil, err
FailAfterConnect(e) ==
  /\ cb' = [cb EXCEPT !.pc = "failed", !.err = e]
  /\ disconnectCalls' = [disconnectCalls EXCEPT ![cb.handle] = @ + 1]
  /\ linkUp' = linkUp \ { cb.handle }
  /\ runFailed' = (runFailed \/ cb.run = run)
  /\ UNCHANGED << handleAddr, cancelCalls, tasks, mgrPc, run, lastEnd, running,
                  stopChannel, devices, panicked, callVars, closeVars, chanVars,
                  scanVars, obsVars >>

\* A step of connectToDevice after adapter.Connect succeeds
StepSucceeds(next) ==
  /\ cb.handle \in linkUp
  /\ cb' = [cb EXCEPT !.pc = next]
  /\ UNCHANGED << running, stopChannel, devices, panicked, callVars, closeVars,
                  runVars, chanVars, scanVars, handleVars, obsVars >>

\* device.DiscoverServices: an error, no service, or services[0]
DiscoverServices ==
  /\ ~panicked
  /\ cb.pc = "services"
  /\ \/ FailAfterConnect("serviceDiscovery")
     \/ FailAfterConnect("serviceNotFound")
     \/ StepSucceeds("characteristics")

\* service.DiscoverCharacteristics: an error, no characteristic, or
\* characteristics[0]
DiscoverCharacteristics ==
  /\ ~panicked
  /\ cb.pc = "characteristics"
  /\ \/ FailAfterConnect("characteristicDiscovery")
     \/ FailAfterConnect("characteristicNotFound")
     \/ StepSucceeds("notifications")

\* characteristic.EnableNotifications fails
EnableNotificationsFails ==
  /\ ~panicked
  /\ cb.pc = "notifications"
  /\ FailAfterConnect("enableNotifications")

\* characteristic.EnableNotifications succeeds: the ConnectedDevice is made,
\* go m.handleNotifications(connectedDevice, ...), and connectToDevice and
\* processDiscoveredDevice return it
EnableNotificationsSucceeds ==
  /\ ~panicked
  /\ cb.pc = "notifications"
  /\ cb.handle \in linkUp
  /\ tasks' = tasks \cup { cb.handle }
  /\ cb' = [cb EXCEPT !.pc = "send"]
  /\ UNCHANGED << handleAddr, linkUp, disconnectCalls, cancelCalls, running,
                  stopChannel, devices, panicked, callVars, closeVars, runVars,
                  chanVars, scanVars, obsVars >>

\* processDiscoveredDevice returned nil after a failure: the callback returns
CallbackReturnsNil ==
  /\ ~panicked
  /\ cb.pc = "failed"
  /\ cb' = IdleCb
  /\ UNCHANGED << running, stopChannel, devices, panicked, callVars, closeVars,
                  runVars, chanVars, scanVars, handleVars, obsVars >>

\* select { case devicesFound <- device: default: } on the channel of the run
\* the callback belongs to (capacity len(m.configs)); a send on a closed
\* channel panics.  A value sent on the channel of a run whose collecting
\* loop has returned is never received, and is not kept.
CallbackSends ==
  /\ ~panicked
  /\ cb.pc = "send"
  /\ IF cb.run \in foundClosed
     THEN /\ panicked' = TRUE
          /\ UNCHANGED << cb, devicesFound >>
     ELSE /\ devicesFound' =
               IF cb.run = run /\ mgrPc = "collect" /\ Len(devicesFound) < NumConfigs
               THEN Append(devicesFound, NewConnectedDevice(cb.cfg, cb.addr, cb.handle))
               ELSE devicesFound
          /\ cb' = [cb EXCEPT !.pc = "check"]
          /\ UNCHANGED panicked
  /\ UNCHANGED << foundClosed, errChannel, running, stopChannel, devices,
                  callVars, closeVars, runVars, scanVars, handleVars, obsVars >>

\* connectedCount >= targetCount: adapter.StopScan(); the callback returns
CallbackChecksCount ==
  /\ ~panicked
  /\ cb.pc = "check"
  /\ scanActive' = IF Cardinality(devices) >= NumConfigs THEN 0 ELSE scanActive
  /\ cb' = IdleCb
  /\ UNCHANGED << scanBlocked, running, stopChannel, devices, panicked,
                  callVars, closeVars, runVars, chanVars, handleVars, obsVars >>

----------------------------------------------------------------------------
(* The connect handler registered by setupDisconnectMonitoring *)

\* disconnectDevice(device): device.cancel() and device.Device.Disconnect()
disconnectDevice(ds) ==
  /\ cancelCalls' = [h \in Handles |->
        IF \E d \in ds : d.Handle = h THEN cancelCalls[h] + 1 ELSE cancelCalls[h]]
  /\ disconnectCalls' = [h \in Handles |->
        IF \E d \in ds : d.Handle = h THEN disconnectCalls[h] + 1
        ELSE disconnectCalls[h]]
  /\ linkUp' = linkUp \ { d.Handle : d \in ds }

\* mutant: the handler's loop stops at any entry
LiveAtAny(a) == devices

\* The entries of the live-set the handler's loop can stop at for an address
LiveAt(a) == { d \in devices : d.Address = a }

\* The link of handle h drops.  With a handler registered the adapter calls it
\* with connected = false, and it looks the address up in the live-set.
LinkDrops(h) ==
  /\ ~panicked
  /\ h \in linkUp
  /\ ob.pc = "idle"
  /\ linkUp' = linkUp \ { h }
  /\ IF observer # 0 /\ LiveAt(handleAddr[h]) # {}
     THEN \E d \in LiveAt(handleAddr[h]) :
            ob' = [pc |-> "found", run |-> observer, dev |-> d]
     ELSE UNCHANGED ob
  /\ UNCHANGED << handleAddr, disconnectCalls, cancelCalls, tasks, observer,
                  disconnectChannel, handlerCalls, signals, running, stopChannel,
                  devices, cb, panicked, callVars, closeVars, runVars, chanVars,
                  scanVars >>

\* delete(m.devices, disconnectedDevice.Name); m.disconnectDevice(...);
\* m.disconnectHandler(name, address, err)
ObserverRemoves ==
  /\ ~panicked
  /\ ob.pc = "found"
  /\ devices' = MapDelete(devices, ob.dev.Name)
  /\ disconnectDevice({ ob.dev })
  /\ handlerCalls' = [handlerCalls EXCEPT ![ob.dev.Handle] = @ + 1]
  /\ ob' = [ob EXCEPT !.pc = "send"]
  /\ UNCHANGED << handleAddr, tasks, observer, disconnectChannel, signals, running,
                  stopChannel, cb, panicked, callVars, closeVars, runVars,
                  chanVars, scanVars >>

\* disconnectChannel <- fmt.Errorf("%s [%s] disconnected", name, address):
\* a blocking send on the channel the handler closed over
ObserverSignals ==
  /\ ~panicked
  /\ ob.pc = "send"
  /\ Len(disconnectChannel[ob.run]) < DisconnectChanCap
  /\ disconnectChannel' =
       [disconnectChannel EXCEPT ![ob.run] = Append(@, << ob.dev.Name, ob.dev.Address >>)]
  /\ signals' = [signals EXCEPT ![ob.dev.Handle] = @ + 1]
  /\ ob' = IdleOb
  /\ UNCHANGED << observer, handlerCalls, running, stopChannel, devices, cb, panicked,
                  callVars, closeVars, runVars, chanVars, scanVars, handleVars >>

----------------------------------------------------------------------------
(* Close *)

\* A call that finds m.running true: m.running = false, then the
\* non-blocking send on m.stopChannel (cap 1).
CloseBegins ==
  /\ ~panicked
  /\ closePc = "idle"
  /\ Len(closeCalls) < MaxCloses
  /\ running
  /\ running' = FALSE
  /\ stopChannel' = 1
  /\ closePc' = "disconnect"
  /\ closeCalls' = Append(closeCalls, TRUE)
  /\ UNCHANGED << devices, cb, panicked, lockedOps, callVars, runVars, chanVars,
                  scanVars, handleVars, obsVars >>

\* mutant: the call goes on to the stop signal although m.running is false
CloseReturnsNilSignalsAgain ==
  /\ ~panicked
  /\ Len(closeCalls) < MaxCloses
  /\ ~running
  /\ closeCalls' = Append(closeCalls, FALSE)
  /\ stopChannel' = 1
  /\ UNCHANGED << running, devices, cb, panicked, closePc, lockedOps, callVars,
                  runVars, chanVars, scanVars, handleVars, obsVars >>

\* A call, from any task, that finds m.running false under the lock: it
\* unlocks and returns nil.
CloseReturnsNil ==
  /\ ~panicked
  /\ Len(closeCalls) < MaxCloses
  /\ ~running
  /\ closeCalls' = Append(closeCalls, FALSE)
  /\ UNCHANGED << running, stopChannel, devices, cb, panicked, closePc, lockedOps,
                  callVars,
                  runVars, chanVars, scanVars, handleVars, obsVars >>

\* m.mu.Lock(); disconnectDevice for every device (device.cancel(), which
\* is EnableNotifications(nil), and Device.Disconnect()), then an empty map;
\* m.mu.Unlock()
CloseDisconnects ==
  /\ ~panicked
  /\ closePc = "disconnect"
  /\ disconnectDevice(devices)
  /\ lockedOps' = IF devices = {} THEN lockedOps
                  ELSE lockedOps \cup { "EnableNotifications", "Disconnect" }
  /\ devices' = {}
  /\ closePc' = "idle"
  /\ UNCHANGED << handleAddr, tasks, running, stopChannel, cb, closeCalls,
                  panicked, callVars, runVars, chanVars, scanVars, obsVars >>

----------------------------------------------------------------------------
(* Properties of the manager *)

\* C1: the live-set holds at most one entry per descriptor name, every key
\* is the name of a configured descriptor, and its size never exceeds the
\* number of configured descriptors.
C1_LiveSetInvariant ==
  /\ \A d, e \in devices : d.Name = e.Name => d = e
  /\ \A d \in devices : d.Name \in ConfigNames
  /\ Cardinality(devices) <= NumConfigs

\* a device is in the live-set in the second run, after a disconnect event
\* has removed the one connected in the first
C1_Witness ==
  /\ run = 2
  /\ \E d \in devices : d.Handle = 2
  /\ cancelCalls[1] >= 1
  /\ closePc = "idle" /\ running

\* C2: no adapter scan is active while a connect attempt is in flight
\* (adapter.Connect invoked and not yet resolved).
C2_NoScanWhileConnecting ==
  cb.pc = "connecting" => scanActive = 0

\* C3: once the first run has ended without a failure, a timeout, a scan
\* error, a dropped link or a Close, and the manager waits for a disconnect
\* with no scan active and no callback in progress, both descriptors are
\* connected.
C3_BothConnectedWhenSettled ==
  ( /\ run = 1
    /\ mgrPc = "monitor"
    /\ lastEnd \in {"all", "closed"}
    /\ ~runFailed
    /\ running
    /\ ~panicked
    /\ scanActive = 0
    /\ cb.pc = "idle"
    /\ linkUp = 1..Len(handleAddr) )
  => Cardinality(devices) = NumConfigs

\* C5: a run in which a per-device step has failed does not end because
\* the scan is over (devicesFound closed): when it returns, it returns with
\* all descriptors connected, on the timeout, or on a scan error.
C5_FailureDoesNotEndRun ==
  [][ (runFailed /\ mgrPc = "collect" /\ mgrPc' # "collect") =>
        lastEnd' \in {"all", "timeout", "error"} ]_vars

\* C6: when connectToDevice has returned an error after adapter.Connect
\* succeeded, Disconnect has been called on the handle, no fan-out task was
\* started for it, it is not in the live-set, and the failing step left the
\* live-set unchanged.
C6_PartialHandleCleanup ==
  /\ []( (cb.pc = "failed" /\ cb.handle # 0) =>
           /\ disconnectCalls[cb.handle] >= 1
           /\ cb.handle \notin linkUp
           /\ cb.handle \notin tasks
           /\ \A d \in devices : d.Handle # cb.handle )
  /\ [][ (cb.pc # "failed" /\ cb'.pc = "failed") => devices' = devices ]_vars

\* connectToDevice has failed at the notification subscription
C6_Witness ==
  /\ cb.pc = "failed"
  /\ cb.handle # 0
  /\ cb.err = "enableNotifications"

\* C7: the step that takes the timeout case stops the scan and returns
\* success iff the live-set is not empty, an error iff it is empty.
C7_TimeoutOutcome ==
  [][ (mgrPc = "collect" /\ lastEnd' = "timeout") =>
        /\ scanActive' = 0
        /\ devices' = devices
        /\ (mgrPc' = "setup") <=> (devices # {})
        /\ (mgrPc' = "retry") <=> (devices = {}) ]_vars

\* the run returned success on the timeout with one of two descriptors
\* connected
C7_Witness ==
  /\ lastEnd = "timeout"
  /\ mgrPc = "setup"
  /\ Cardinality(devices) = 1

\* C10: the handler that signals the disconnect of a live device while the
\* connectionManager waits for a disconnect signals the channel of the
\* current run.
C10_SignalOnCurrentRunChannel ==
  (ob.pc = "send" /\ mgrPc = "monitor") => ob.run = run

\* C11: while the connectionManager waits for a disconnect signal that is
\* neither buffered nor being produced, and Close has not been called, every
\* device of the live-set is still connected (a device that has disconnected
\* has made the manager leave the wait for a new discovery run).
C11_DisconnectRestartsDiscovery ==
  ( mgrPc = "monitor" /\ running /\ closePc = "idle" /\ ~panicked
    /\ ob.pc = "idle" /\ disconnectChannel[run] = << >> )
  => \A d \in devices : d.Handle \in linkUp

\* C19: at most one connect handler is registered, never one of a run that
\* has not begun, and while the connectionManager waits for a disconnect it
\* is the handler of the current run (the new run has replaced the previous
\* one); for the device of every handle the user's disconnect handler has
\* been called at most once and at most one signal has been sent on a
\* disconnect channel.
C19_OneObserverOneNotification ==
  /\ observer \in 0..run
  /\ mgrPc = "monitor" => observer = run
  /\ \A h \in Handles :
        /\ handlerCalls[h] <= 1
        /\ signals[h] <= handlerCalls[h]

\* the second run has replaced the handler of the first, which has notified
\* one disconnect
C19_Witness ==
  /\ run = 2
  /\ observer = 2
  /\ \E h \in Handles : signals[h] = 1

C12_LiveSetEmptyAfterClose ==
  (connectCalls > 0 /\ ~running /\ closePc = "idle") => devices = {}

\* C21: Close is idempotent: a call of Close that follows another one, from
\* any task, returns nil without sending on the stop channel again, without
\* cancelling or disconnecting any device again and without touching the
\* live-set, so two calls have the effect of one.
C21_CloseIdempotent ==
  [][ ( Len(closeCalls') > Len(closeCalls) /\ TRUE \in Range(closeCalls) )
        => /\ closeCalls' = Append(closeCalls, FALSE)
           /\ UNCHANGED << running, stopChannel, devices, linkUp,
                           disconnectCalls, cancelCalls, tasks, closePc >> ]_vars

\* the second call has returned while the first is still before its
\* disconnect loop, with a device in the live-set
C21_Witness ==
  /\ closeCalls = << TRUE, FALSE >>
  /\ closePc = "disconnect"
  /\ devices # {}

\* C31: in connectToDevice connect, service discovery, characteristic
\* discovery and notification subscription happen strictly in that order,
\* each step starting only after the previous one succeeded (an error, zero
\* services or zero characteristics stop the sequence), and the
\* ConnectedDevice with its fan-out task is created only after all four
\* steps have succeeded.
C31_StepOrdering ==
  [][ /\ (cb'.pc # cb.pc /\ cb'.pc = "connecting") => cb.pc = "settle"
      /\ (cb'.pc # cb.pc /\ cb'.pc = "services") =>
            (cb.pc = "connecting" /\ cb'.handle \in linkUp')
      /\ (cb'.pc # cb.pc /\ cb'.pc = "characteristics") => cb.pc = "services"
      /\ (cb'.pc # cb.pc /\ cb'.pc = "notifications") => cb.pc = "characteristics"
      /\ (cb'.pc # cb.pc /\ cb'.pc = "send") => cb.pc = "notifications"
      /\ cb'.pc \in {"services", "characteristics", "notifications", "send"}
            => cb'.err = "none"
      /\ (cb'.err # "none" /\ cb.err = "none") => cb'.pc = "failed"
      /\ tasks' # tasks =>
            /\ cb.pc = "notifications" /\ cb'.pc = "send"
            /\ tasks' = tasks \cup { cb.handle } ]_vars

\* the second connection of the manager has gone through all four steps
\* and its fan-out task has been started
C31_Witness ==
  /\ cb.pc = "send"
  /\ cb.handle = 2
  /\ tasks = { 1, 2 }

\* C32: the manager never holds its mutex while performing a blocking
\* adapter operation (Scan, Connect, EnableNotifications, Disconnect), a
\* sleep or a channel wait.
C32_NoBlockingUnderLock == lockedOps = {}

\* C34: the scan callback never sends a connected device on the
\* devicesFound channel after the scan goroutine has closed that channel; no
\* send-on-closed-channel panic is reachable.
C34_NoSendOnClosed == ~panicked

\* C35: the connect handler installed by setupDisconnectMonitoring never
\* blocks forever on its send to the disconnect channel (capacity 1): it is
\* never at its send with the channel full unless the connectionManager is
\* waiting on that very channel.
C35_ObserverNeverBlocks ==
  ~( /\ ob.pc = "send"
     /\ Len(disconnectChannel[ob.run]) = DisconnectChanCap
     /\ ~(run = ob.run /\ mgrPc = "monitor") )

\* C36: each ConnectedDevice is cleaned up by disconnectDevice (unsubscribe
\* plus handle Disconnect) at most once, for every interleaving of Close
\* with the connect handler handling the same device.
C36_CleanedUpAtMostOnce == \A h \in Handles : cancelCalls[h] <= 1

\* C13: when the connectionManager has terminated, Close has returned, no
\* callback or handler is in progress and no scan goroutine is left, no
\* handleNotifications task is left of a device that was removed from the
\* live-set and cleaned up by disconnectDevice.  (handleNotifications ranges
\* over device.Channel and ends when the channel is closed; nothing in the
\* package closes it, so a task that was started stays.)
C13_NoFanOutTaskLeft ==
  ( mgrPc = "stopped" /\ closePc = "idle" /\ ~running /\ ~panicked
    /\ cb.pc = "idle" /\ ob.pc = "idle" /\ scanBlocked = {} /\ devices = {} )
  => \A h \in tasks : cancelCalls[h] = 0

\* C16: a run that has failed is followed by the retry of the loop: while
\* the connectionManager is in the 10 s pause after a failed run and Close
\* has not been called, the process is alive.
C16_FailedRunIsRetried ==
  (mgrPc = "retry" /\ running) => ~panicked

----------------------------------------------------------------------------
(* Part II: the adapter-enable guard of                                    *)
(* bluetooth_connector.Discover_Multiple_Characteristics.  Several         *)
(* goroutines call the function, each of them several times in sequence.   *)
(* adapter.Enable is the environment's: it returns nil or an error.        *)

\* goroutines that call Discover_Multiple_Characteristics
MaxCallers == 2

\* calls each of them makes, one after the other
MaxCalls == 2

\* ConnectDevices calls on one Manager
MaxConnectCalls == 2

VARIABLES
  adapterEnabled, \* package variable adapterEnabled
  adapterMutex,   \* callers that hold adapterMutex (a mutex has at most one)
  dmc,            \* per caller: position in Discover_Multiple_Characteristics
  dmcCalls,       \* per caller: calls started so far
  enableOk,       \* adapter.Enable calls that returned nil
  enableErr,      \* adapter.Enable calls that returned an error
  scanTasks       \* run_scan goroutines started

enableVars ==
  << adapterEnabled, adapterMutex, dmc, dmcCalls, enableOk, enableErr,
     scanTasks >>

Callers == 1..MaxCallers

\* the package variables before any call
InitEnable ==
  /\ adapterEnabled = FALSE
  /\ adapterMutex = {}
  /\ dmc = [c \in Callers |-> "idle"]
  /\ dmcCalls = [c \in Callers |-> 0]
  /\ enableOk = 0
  /\ enableErr = 0
  /\ scanTasks = 0

\* a caller enters Discover_Multiple_Characteristics
Discover_Multiple_Characteristics(c) ==
  /\ dmc[c] = "idle"
  /\ dmcCalls[c] < MaxCalls
  /\ dmcCalls' = [dmcCalls EXCEPT ![c] = @ + 1]
  /\ dmc' = [dmc EXCEPT ![c] = "lock"]
  /\ UNCHANGED << adapterEnabled, adapterMutex, enableOk, enableErr, scanTasks >>

\* mutant: a lock that lets every caller in
LockNoExclusion(c) ==
  /\ dmc[c] = "lock"
  /\ adapterMutex' = adapterMutex \cup {c}
  /\ dmc' = [dmc EXCEPT ![c] = "check"]
  /\ UNCHANGED << adapterEnabled, dmcCalls, enableOk, enableErr, scanTasks >>

\* adapterMutex.Lock(): blocks while another caller holds the mutex
Lock(c) ==
  /\ dmc[c] = "lock"
  /\ adapterMutex = {}
  /\ adapterMutex' = adapterMutex \cup {c}
  /\ dmc' = [dmc EXCEPT ![c] = "check"]
  /\ UNCHANGED << adapterEnabled, dmcCalls, enableOk, enableErr, scanTasks >>

\* if !adapterEnabled { ... } else { "BLE adapter already enabled" }
CheckEnabled(c) ==
  /\ dmc[c] = "check"
  /\ dmc' = [dmc EXCEPT ![c] = IF adapterEnabled THEN "unlock" ELSE "enable"]
  /\ UNCHANGED << adapterEnabled, adapterMutex, dmcCalls, enableOk, enableErr,
                  scanTasks >>

\* adapter.Enable() returns an error: Unlock, return the error
EnableFails(c) ==
  /\ dmc[c] = "enable"
  /\ enableErr' = enableErr + 1
  /\ adapterMutex' = adapterMutex \ {c}
  /\ dmc' = [dmc EXCEPT ![c] = "idle"]
  /\ UNCHANGED << adapterEnabled, dmcCalls, enableOk, scanTasks >>

\* adapter.Enable() returns nil: adapterEnabled = true, then the 2 s sleep
EnableSucceeds(c) ==
  /\ dmc[c] = "enable"
  /\ enableOk' = enableOk + 1
  /\ adapterEnabled' = TRUE
  /\ dmc' = [dmc EXCEPT ![c] = "sleep"]
  /\ UNCHANGED << adapterMutex, dmcCalls, enableErr, scanTasks >>

\* time.Sleep(2 * time.Second), still holding the mutex
EnableSleep(c) ==
  /\ dmc[c] = "sleep"
  /\ dmc' = [dmc EXCEPT ![c] = "unlock"]
  /\ UNCHANGED << adapterEnabled, adapterMutex, dmcCalls, enableOk, enableErr,
                  scanTasks >>

\* adapterMutex.Unlock() after the if
Unlock(c) ==
  /\ dmc[c] = "unlock"
  /\ adapterMutex' = adapterMutex \ {c}
  /\ dmc' = [dmc EXCEPT ![c] = "scan"]
  /\ UNCHANGED << adapterEnabled, dmcCalls, enableOk, enableErr, scanTasks >>

\* go run_scan(...); return channel, err_channel, nil
GoRunScan(c) ==
  /\ dmc[c] = "scan"
  /\ scanTasks' = scanTasks + 1
  /\ dmc' = [dmc EXCEPT ![c] = "idle"]
  /\ UNCHANGED << adapterEnabled, adapterMutex, dmcCalls, enableOk, enableErr >>

----------------------------------------------------------------------------
(* Properties of the adapter-enable guards *)

\* C8: over any calls of Discover_Multiple_Characteristics, sequential or
\* concurrent, at most one adapter.Enable call succeeds and the flag is set
\* exactly when one has; while the flag is set no call makes an Enable call;
\* a failed Enable leaves the flag unset and the mutex free, so that the next
\* call tries again.
C8_AdapterEnableGuard ==
  /\ [](enableOk <= 1 /\ (adapterEnabled <=> enableOk = 1))
  /\ [][ adapterEnabled => (enableOk' = enableOk /\ enableErr' = enableErr) ]_enableVars
  /\ [][ enableErr' # enableErr =>
           (~adapterEnabled' /\ adapterMutex' = {}) ]_enableVars

\* an Enable call failed, a later one succeeded, and two calls have gone
\* through since, one of which skipped Enable
C8_Witness ==
  /\ enableErr >= 1
  /\ enableOk = 1
  /\ scanTasks >= 2

\* C9: after two ConnectDevices calls on one Manager, adapter.Enable has
\* been called exactly once.
C9_OneEnableForTwoConnectDevices ==
  connectCalls = 2 => enableCalls = 1

----------------------------------------------------------------------------
(* Part III: discovery in bluetooth_connector.  Connect_To_Multiple_       *)
(* Characteristics has called Discover_Multiple_Characteristics for the    *)
(* descriptors of Configs and receives from channel and err_channel (both  *)
(* unbuffered: a send is a rendezvous with the receive).  run_scan blocks  *)
(* in adapter.Scan; its callback stops the scan for a matching result and  *)
(* starts process_device_connection, which restarts the scan by calling    *)
(* run_scan itself.  Every run_scan invocation has its own context, its    *)
(* own timeout monitor and its own discovered_characteristics slice.       *)

\* run_scan invocations
MaxScans == 2

\* connect_to_device_with_retry(adapter, result, 2)
maxRetries == 2

VARIABLES
  scanCount,       \* run_scan invocations so far
  devices_to_discover, \* per invocation: the slice it was given (config indexes)
  discovered_characteristics, \* per invocation: addresses it has connected
  ctx,             \* per invocation: state of its context
  monitor,         \* per invocation: position of its timeout monitor
  inScan,          \* invocations still blocked inside adapter.Scan
  scanning,        \* invocation whose scan delivers results, 0 when none
  scanErr,         \* invocations blocked sending "could not start a scan"
  pdc,             \* the process_device_connection goroutine
  links,           \* addresses the connector holds a connection to
  receiver,        \* position of Connect_To_Multiple_Characteristics and,
                   \* once it has returned, of Connect_And_Reconnect_To_Devices
  received,        \* the characteristics (name, address) received on channel
  listener,        \* Setup_Disconnect_Listener has registered its handler
  hd,              \* the invocation in progress of that connect handler
  disabled         \* addresses whose Disable_Characteristic_Listener was called

connectorVars ==
  << scanCount, devices_to_discover, discovered_characteristics, ctx, monitor,
     inScan, scanning, scanErr, pdc, links, receiver, received, listener, hd,
     disabled >>

batchVars == << listener, hd, disabled >>

ctxVars == << scanCount, devices_to_discover, ctx, monitor, inScan >>

Scans == 1..MaxScans

IdlePdc ==
  [pc |-> "idle", scan |-> 0, addr |-> "", idx |-> 0, attempt |-> 0,
   outcome |-> "none", rest |-> << >>]

IdleHd == [pc |-> "idle", addr |-> ""]

\* Discover_Multiple_Characteristics has returned the two channels and the
\* go statement for the first run_scan has been executed
InitConnector ==
  /\ scanCount = 0
  /\ devices_to_discover = [s \in Scans |-> << >>]
  /\ discovered_characteristics = [s \in Scans |-> << >>]
  /\ ctx = [s \in Scans |-> "none"]
  /\ monitor = [s \in Scans |-> "none"]
  /\ inScan = {}
  /\ scanning = 0
  /\ scanErr = {}
  /\ pdc = IdlePdc
  /\ links = {}
  /\ receiver = "recv"
  /\ received = << >>
  /\ listener = FALSE
  /\ hd = IdleHd
  /\ disabled = {}

\* is_device_to_discover: position in the list of the first descriptor whose
\* service UUID is advertised, else of the first one whose name equals the
\* non-empty advertised name, else 0
First(S) == CHOOSE i \in S : \A j \in S : i <= j

is_device_to_discover_in(descriptors, result) ==
  LET byUUID == { i \in 1..Len(descriptors) : descriptors[i].ServiceUUID \in result.UUIDs }
      byName == { i \in 1..Len(descriptors) : descriptors[i].Name = result.LocalName }
  IN  IF byUUID # {} THEN First(byUUID)
      ELSE IF result.LocalName # "" /\ byName # {} THEN First(byName)
      ELSE 0

\* the list of a run holds positions of the caller's descriptors
is_device_to_discover(list, result) ==
  is_device_to_discover_in([i \in 1..Len(list) |-> Configs[list[i]]], result)

\* remove: s[i] = s[len(s)-1]; return s[:len(s)-1]
remove(s, i) ==
  IF i < 1 \/ i > Len(s) THEN s
  ELSE [j \in 1..(Len(s) - 1) |-> IF j = i THEN s[Len(s)] ELSE s[j]]

\* run_scan up to the adapter.Scan call: a fresh discovered_characteristics
\* slice, a fresh context with its monitor goroutine, the scan starts
run_scan(list) ==
  /\ scanCount < MaxScans
  /\ scanCount' = scanCount + 1
  /\ devices_to_discover' = [devices_to_discover EXCEPT ![scanCount + 1] = list]
  /\ discovered_characteristics' =
       [discovered_characteristics EXCEPT ![scanCount + 1] = << >>]
  /\ ctx' = [ctx EXCEPT ![scanCount + 1] = "live"]
  /\ monitor' = [monitor EXCEPT ![scanCount + 1] = "wait"]
  /\ inScan' = inScan \cup {scanCount + 1}
  /\ scanning' = scanCount + 1

\* the goroutine started by Discover_Multiple_Characteristics
RunScanFirst ==
  /\ scanCount = 0
  /\ run_scan([i \in 1..NumConfigs |-> i])
  /\ UNCHANGED << scanErr, pdc, links, receiver, received >>

\* adapter.Scan returns an error: run_scan blocks sending it on err_channel
ScanStartFails(s) ==
  /\ scanning = s
  /\ s \in inScan
  /\ scanning' = 0
  /\ inScan' = inScan \ {s}
  /\ scanErr' = scanErr \cup {s}
  /\ UNCHANGED << scanCount, devices_to_discover, discovered_characteristics,
                  ctx, monitor, pdc, links, receiver, received >>

\* the scan callback for the advertisement of the peripheral at a: a
\* descriptor of this invocation matches and the address is not yet among
\* its discovered characteristics: StopScan, go process_device_connection
ScanCallback(a) ==
  /\ scanning # 0
  /\ a \notin links
  /\ is_device_to_discover(devices_to_discover[scanning], ScanResult(a)) # 0
  /\ \A k \in 1..Len(discovered_characteristics[scanning]) :
        discovered_characteristics[scanning][k] # a
  /\ scanning' = 0
  /\ pdc' = [pc |-> "settle", scan |-> scanning, addr |-> a,
             idx |-> is_device_to_discover(devices_to_discover[scanning], ScanResult(a)),
             attempt |-> 1, outcome |-> "none", rest |-> << >>]
  /\ UNCHANGED << discovered_characteristics, scanErr, links, receiver,
                  received, ctxVars >>

\* adapter.Scan returns nil after StopScan: run_scan returns and its
\* deferred cancel() cancels the context; the monitor sees Canceled and ends
RunScanReturns(s) ==
  /\ s \in inScan
  /\ scanning # s
  /\ inScan' = inScan \ {s}
  /\ ctx' = [ctx EXCEPT ![s] = IF @ = "live" THEN "canceled" ELSE @]
  /\ monitor' = [monitor EXCEPT ![s] = IF @ = "wait" THEN "done" ELSE @]
  /\ UNCHANGED << scanCount, devices_to_discover, discovered_characteristics,
                  scanning, scanErr, pdc, links, receiver, received >>

\* the 60 s of the context elapse: the monitor sends "scan timeout" when
\* fewer characteristics than descriptors have been discovered
CtxDeadline(s) ==
  /\ ctx[s] = "live"
  /\ ctx' = [ctx EXCEPT ![s] = "deadline"]
  /\ monitor' = [monitor EXCEPT ![s] =
       IF Len(discovered_characteristics[s]) < Len(devices_to_discover[s])
       THEN "send" ELSE "done"]
  /\ UNCHANGED << scanCount, devices_to_discover, discovered_characteristics,
                  inScan, scanning, scanErr, pdc, links, receiver, received >>

\* time.Sleep(500 * time.Millisecond) of process_device_connection
PdcSettle ==
  /\ pdc.pc = "settle"
  /\ pdc' = [pdc EXCEPT !.pc = "connect"]
  /\ UNCHANGED << discovered_characteristics, scanning, scanErr, links,
                  receiver, received, ctxVars >>

\* mutant: the loop runs while attempt <= maxRetries + 1
ConnectAttemptFailsOnceMore ==
  /\ pdc.pc = "connect"
  /\ pdc' = IF pdc.attempt < maxRetries + 1
            THEN [pdc EXCEPT !.attempt = @ + 1]
            ELSE [pdc EXCEPT !.pc = "failed", !.outcome = "failed"]
  /\ UNCHANGED << discovered_characteristics, scanning, scanErr, links,
                  receiver, received, ctxVars >>

\* connect_to_device_immediately fails: sleep 3 s and try again, or give up
\* after maxRetries attempts
ConnectAttemptFails ==
  /\ pdc.pc = "connect"
  /\ pdc' = IF pdc.attempt < maxRetries
            THEN [pdc EXCEPT !.attempt = @ + 1]
            ELSE [pdc EXCEPT !.pc = "failed", !.outcome = "failed"]
  /\ UNCHANGED << discovered_characteristics, scanning, scanErr, links,
                  receiver, received, ctxVars >>

\* connect_to_device_immediately succeeds
ConnectAttemptSucceeds ==
  /\ pdc.pc = "connect"
  /\ links' = links \cup {pdc.addr}
  /\ pdc' = [pdc EXCEPT !.pc = "discover"]
  /\ UNCHANGED << discovered_characteristics, scanning, scanErr, receiver,
                  received, ctxVars >>

\* a step after the connect fails: device.Disconnect(), then
\* restart_scan_after_failure
PdcStepFails(at) ==
  /\ pdc.pc = at
  /\ links' = links \ {pdc.addr}
  /\ pdc' = [pdc EXCEPT !.pc = "failed", !.outcome = "failed"]
  /\ UNCHANGED << discovered_characteristics, scanning, scanErr, receiver,
                  received, ctxVars >>

\* discover_service_and_characteristic
DiscoverFails == PdcStepFails("discover")

DiscoverSucceeds ==
  /\ pdc.pc = "discover"
  /\ pdc' = [pdc EXCEPT !.pc = "listen"]
  /\ UNCHANGED << discovered_characteristics, scanning, scanErr, links,
                  receiver, received, ctxVars >>

\* discovered_device.Establish_Characteristic_Listener
ListenerFails == PdcStepFails("listen")

\* the listener is established: append to this invocation's
\* discovered_characteristics, then channel <- discovered_characteristic
ListenerSucceeds ==
  /\ pdc.pc = "listen"
  /\ discovered_characteristics' =
       [discovered_characteristics EXCEPT ![pdc.scan] = Append(@, pdc.addr)]
  /\ pdc' = [pdc EXCEPT !.pc = "send", !.outcome = "connected"]
  /\ UNCHANGED << scanning, scanErr, links, receiver, received, ctxVars >>

\* the rendezvous on channel: Connect_To_Multiple_Characteristics appends
\* and returns when it has as many as there are descriptors;
\* process_device_connection removes the descriptor and returns when none is
\* left, else sleeps 1 s before restart_scan_for_remaining
ChannelHandoff ==
  /\ pdc.pc = "send"
  /\ receiver = "recv"
  /\ received' = Append(received,
                  [Name |-> Configs[devices_to_discover[pdc.scan][pdc.idx]].Name,
                   Address |-> pdc.addr])
  /\ receiver' = IF Len(received) + 1 = NumConfigs THEN "returned" ELSE "recv"
  /\ pdc' = IF remove(devices_to_discover[pdc.scan], pdc.idx) = << >>
            THEN [pdc EXCEPT !.pc = "returned"]
            ELSE [pdc EXCEPT !.pc = "pause",
                             !.rest = remove(devices_to_discover[pdc.scan], pdc.idx)]
  /\ UNCHANGED << discovered_characteristics, scanning, scanErr, links, ctxVars >>

\* restart_scan_for_remaining, default case: run_scan(updated_devices)
restart_scan_for_remaining ==
  /\ pdc.pc = "pause"
  /\ ctx[pdc.scan] = "live"
  /\ run_scan(pdc.rest)
  /\ pdc' = [pdc EXCEPT !.pc = "scanning"]
  /\ UNCHANGED << scanErr, links, receiver, received >>

\* restart_scan_for_remaining, case <-ctx.Done(): return
RemainingCtxDone ==
  /\ pdc.pc = "pause"
  /\ ctx[pdc.scan] # "live"
  /\ pdc' = [pdc EXCEPT !.pc = "returned"]
  /\ UNCHANGED << discovered_characteristics, scanning, scanErr, links,
                  receiver, received, ctxVars >>

\* restart_scan_after_failure, default case: sleep 3 s, then
\* run_scan(devices_to_discover) without another look at the context
restart_scan_after_failure ==
  /\ pdc.pc = "failed"
  /\ ctx[pdc.scan] = "live"
  /\ pdc' = [pdc EXCEPT !.pc = "failWait"]
  /\ UNCHANGED << discovered_characteristics, scanning, scanErr, links,
                  receiver, received, ctxVars >>

FailureRestart ==
  /\ pdc.pc = "failWait"
  /\ run_scan(devices_to_discover[pdc.scan])
  /\ pdc' = [pdc EXCEPT !.pc = "scanning"]
  /\ UNCHANGED << scanErr, links, receiver, received >>

\* restart_scan_after_failure, case <-ctx.Done(): return
FailureCtxDone ==
  /\ pdc.pc = "failed"
  /\ ctx[pdc.scan] # "live"
  /\ pdc' = [pdc EXCEPT !.pc = "returned"]
  /\ UNCHANGED << discovered_characteristics, scanning, scanErr, links,
                  receiver, received, ctxVars >>

\* case err := <-err_channel, sent by a timeout monitor
MonitorErrReceived(s) ==
  /\ monitor[s] = "send"
  /\ receiver = "recv"
  /\ monitor' = [monitor EXCEPT ![s] = "done"]
  /\ receiver' = "error"
  /\ UNCHANGED << scanCount, devices_to_discover, discovered_characteristics,
                  ctx, inScan, scanning, scanErr, pdc, links, received >>

\* case err := <-err_channel, sent by run_scan; run_scan then returns and
\* its deferred cancel() runs
ScanErrReceived(s) ==
  /\ s \in scanErr
  /\ receiver = "recv"
  /\ scanErr' = scanErr \ {s}
  /\ receiver' = "error"
  /\ ctx' = [ctx EXCEPT ![s] = IF @ = "live" THEN "canceled" ELSE @]
  /\ monitor' = [monitor EXCEPT ![s] = IF @ = "wait" THEN "done" ELSE @]
  /\ UNCHANGED << scanCount, devices_to_discover, discovered_characteristics,
                  inScan, scanning, pdc, links, received >>

----------------------------------------------------------------------------
(* Connect_And_Reconnect_To_Devices after Connect_To_Devices has returned: *)
(* it waits on the disconnect channel that Setup_Disconnect_Listener's     *)
(* handler sends on (unbuffered).  The next iteration calls                *)
(* Connect_To_Devices again with the caller's devices_to_discover, which   *)
(* Discover_Multiple_Characteristics copies before run_scan works on it.   *)

\* the addresses of chars_copy, the batch the handler closes over
Batch == { received[k].Address : k \in 1..Len(received) }

\* go Setup_Disconnect_Listener(error_channel, chars_copy):
\* adapter.SetConnectHandler(...)
Setup_Disconnect_Listener ==
  /\ Len(received) = NumConfigs
  /\ ~listener
  /\ listener' = TRUE
  /\ UNCHANGED << discovered_characteristics, scanning, scanErr, pdc, links,
                  receiver, received, hd, disabled, ctxVars >>

\* The link of a peripheral that process_device_connection has set up
\* drops.  A registered handler is called with connected = false and acts
\* when the address is in its batch.
PeripheralDrops(a) ==
  /\ a \in links
  /\ \E s \in Scans : \E k \in 1..Len(discovered_characteristics[s]) :
        discovered_characteristics[s][k] = a
  /\ hd.pc = "idle"
  /\ links' = links \ {a}
  /\ hd' = IF listener /\ a \in Batch THEN [pc |-> "send", addr |-> a] ELSE hd
  /\ UNCHANGED << discovered_characteristics, scanning, scanErr, pdc, receiver,
                  received, listener, disabled, ctxVars >>

\* error_channel <- "... disconnected": the rendezvous with
\* case disconnect_error := <-disconnect_channel
HandlerSignals ==
  /\ hd.pc = "send"
  /\ receiver = "returned"
  /\ receiver' = "reconnect"
  /\ hd' = [hd EXCEPT !.pc = "disconnect_all"]
  /\ UNCHANGED << discovered_characteristics, scanning, scanErr, pdc, links,
                  received, listener, disabled, ctxVars >>

\* disconnect_all(discovered_characteristics): for every device of the batch
\* Disable_Characteristic_Listener() and Device.Disconnect()
disconnect_all ==
  /\ hd.pc = "disconnect_all"
  /\ disabled' = disabled \cup Batch
  /\ links' = links \ Batch
  /\ hd' = IdleHd
  /\ UNCHANGED << discovered_characteristics, scanning, scanErr, pdc, receiver,
                  received, listener, ctxVars >>

\* stop_channel <- true, the 3 s and 2 s sleeps, then the next iteration
SupervisorReconnects ==
  /\ receiver = "reconnect"
  /\ receiver' = "next"
  /\ UNCHANGED << discovered_characteristics, scanning, scanErr, pdc, links,
                  received, listener, hd, disabled, ctxVars >>

\* Connect_To_Devices returned an error: sleep 10 s; continue
SupervisorRetries ==
  /\ receiver = "error"
  /\ receiver' = "next"
  /\ UNCHANGED << discovered_characteristics, scanning, scanErr, pdc, links,
                  received, listener, hd, disabled, ctxVars >>

----------------------------------------------------------------------------
(* Properties of the connector's discovery *)

\* C4: process_device_connection, having connected a device while other
\* descriptors are still unmatched, does not return without having
\* restarted the scan for the remaining descriptors.
C4_ScanResumesForRemaining ==
  ~(pdc.pc = "returned" /\ pdc.outcome = "connected" /\ pdc.rest # << >>)

\* C14: Connect_To_Multiple_Characteristics is not left waiting on channel
\* and err_channel with nothing that could still send on them: no scan
\* running or about to return, no run_scan blocked on err_channel, no
\* timeout monitor waiting or sending, process_device_connection returned.
C14_ReceiverNotStranded ==
  ~( /\ receiver = "recv"
     /\ scanCount >= 1
     /\ scanCount < MaxScans
     /\ scanning = 0
     /\ inScan = {}
     /\ scanErr = {}
     /\ pdc.pc = "returned"
     /\ \A s \in Scans : monitor[s] \in {"none", "done"} )

\* C15: a device of the run whose link has dropped is being handled by the
\* connect handler or has had its listener disabled by disconnect_all (with
\* the whole batch), whether the run is still waiting for other devices or
\* has them all.
C15_DropDisconnectsBatch ==
  \A k \in 1..Len(received) :
     received[k].Address \notin links =>
       (hd.pc # "idle" \/ received[k].Address \in disabled)

\* C33: connect_to_device_with_retry with maxRetries = 2 makes at most two
\* connect attempts per matched device, the second only after the first
\* failed, returns the handle of the first successful attempt, and returns
\* an error if and only if both attempts failed.
C33_ConnectRetry ==
  [][ /\ pdc'.attempt <= maxRetries
      /\ pdc.pc = "connect" =>
            /\ pdc'.pc \in { "connect", "discover", "failed" }
            /\ pdc'.attempt # pdc.attempt =>
                  /\ pdc'.attempt = pdc.attempt + 1
                  /\ pdc'.pc = "connect"
                  /\ links' = links
            /\ pdc'.pc = "discover" =>
                  /\ pdc'.attempt = pdc.attempt
                  /\ links' = links \cup { pdc.addr }
            /\ pdc'.pc = "failed" =>
                  /\ pdc.attempt = maxRetries
                  /\ links' = links ]_connectorVars

\* the second attempt has succeeded after the first one failed
C33_Witness ==
  /\ pdc.pc = "discover"
  /\ pdc.attempt = 2
  /\ pdc.addr \in links

\* C24: when a run ends with an error returned by
\* Connect_To_Multiple_Characteristics (scan timeout or scan start failure),
\* the adapter scan has been stopped and every handle connected during the
\* run has been disconnected before the error is returned.
C24_ErrorReturnsAfterCleanup ==
  receiver = "error" => (scanning = 0 /\ links = {})

----------------------------------------------------------------------------
(* Part IV: notification delivery for one ConnectedDevice of ble.Manager.  *)
(* connectToDevice makes the device's channel and registers the delivery   *)
(* callback with EnableNotifications; handleNotifications ranges over the  *)
(* channel and calls the descriptor's NotificationHandler, which returns   *)
(* nil or an error.  Payloads are numbered in the order of their arrival.  *)

\* notifications the peripheral sends
MaxNotifications == 12

\* handler calls that return an error
MaxHandlerErrors == 2

\* channel := make(chan []byte, 10)
ChannelCap == 10

VARIABLES
  Channel,        \* buffer of device.Channel
  arrived,        \* notifications delivered to the callback so far
  dropped,        \* payloads the callback has dropped
  taskPc,         \* position of handleNotifications
  inHand,         \* payload the handler is being called with, 0 when none
  dispatched,     \* payloads the handler has been called with, in order
  handlerErrors,  \* handler calls that returned an error
  lastError       \* payload of the latest of them, 0 when none

notifyVars ==
  << Channel, arrived, dropped, taskPc, inHand, dispatched, handlerErrors,
     lastError >>

\* after EnableNotifications has succeeded and go m.handleNotifications(...)
InitNotify ==
  /\ Channel = << >>
  /\ arrived = 0
  /\ dropped = {}
  /\ taskPc = "range"
  /\ inHand = 0
  /\ dispatched = << >>
  /\ handlerErrors = 0
  /\ lastError = 0

\* mutant: a full channel gives up its oldest payload for the new one
NotificationCallbackDropsOldest ==
  /\ arrived < MaxNotifications
  /\ arrived' = arrived + 1
  /\ IF Len(Channel) < ChannelCap
     THEN /\ Channel' = Append(Channel, arrived + 1)
          /\ dropped' = dropped
     ELSE /\ Channel' = Append(Tail(Channel), arrived + 1)
          /\ dropped' = dropped \cup { Head(Channel) }
  /\ UNCHANGED << taskPc, inHand, dispatched, handlerErrors, lastError >>

\* the delivery callback: select { case channel <- data: default: }
NotificationCallback ==
  /\ arrived < MaxNotifications
  /\ arrived' = arrived + 1
  /\ IF Len(Channel) < ChannelCap
     THEN /\ Channel' = Append(Channel, arrived + 1)
          /\ dropped' = dropped
     ELSE /\ Channel' = Channel
          /\ dropped' = dropped \cup { arrived + 1 }
  /\ UNCHANGED << taskPc, inHand, dispatched, handlerErrors, lastError >>

\* mutant: the loop takes the payload queued last
handleNotificationsNewestFirst ==
  /\ taskPc = "range"
  /\ Channel # << >>
  /\ inHand' = Channel[Len(Channel)]
  /\ Channel' = SubSeq(Channel, 1, Len(Channel) - 1)
  /\ taskPc' = "handler"
  /\ UNCHANGED << arrived, dropped, dispatched, handlerErrors, lastError >>

\* for data := range device.Channel
handleNotifications ==
  /\ taskPc = "range"
  /\ Channel # << >>
  /\ inHand' = Head(Channel)
  /\ Channel' = Tail(Channel)
  /\ taskPc' = "handler"
  /\ UNCHANGED << arrived, dropped, dispatched, handlerErrors, lastError >>

\* handler(device.Name, data) returns nil
HandlerReturnsNil ==
  /\ taskPc = "handler"
  /\ dispatched' = Append(dispatched, inHand)
  /\ inHand' = 0
  /\ taskPc' = "range"
  /\ UNCHANGED << Channel, arrived, dropped, handlerErrors, lastError >>

\* mutant: an error of the handler ends the loop
HandlerErrorEndsTask ==
  /\ taskPc = "handler"
  /\ handlerErrors < MaxHandlerErrors
  /\ dispatched' = Append(dispatched, inHand)
  /\ handlerErrors' = handlerErrors + 1
  /\ lastError' = inHand
  /\ inHand' = 0
  /\ taskPc' = "ended"
  /\ UNCHANGED << Channel, arrived, dropped >>

\* handler(device.Name, data) returns an error: it is printed, the loop goes on
HandlerReturnsError ==
  /\ taskPc = "handler"
  /\ handlerErrors < MaxHandlerErrors
  /\ dispatched' = Append(dispatched, inHand)
  /\ handlerErrors' = handlerErrors + 1
  /\ lastError' = inHand
  /\ inHand' = 0
  /\ taskPc' = "range"
  /\ UNCHANGED << Channel, arrived, dropped >>

----------------------------------------------------------------------------
(* Properties of the notification delivery *)

\* the payloads the callback has put on the channel, in order of arrival
Accepted == SelectSeq([i \in 1..arrived |-> i], LAMBDA p : p \notin dropped)

InHandSeq == IF inHand = 0 THEN << >> ELSE << inHand >>

\* C17: the delivery callback never blocks (it can always take the next
\* notification); the channel never holds more than 10 payloads; a payload
\* that arrives when it holds 10 is dropped and the queued ones are kept, one
\* that arrives when it holds fewer is queued behind them.
C17_NonBlockingDelivery ==
  /\ [](Len(Channel) <= ChannelCap)
  /\ [](arrived < MaxNotifications => ENABLED NotificationCallback)
  /\ [][ arrived' = arrived + 1 =>
           IF Len(Channel) = ChannelCap
           THEN Channel' = Channel /\ dropped' = dropped \cup { arrived + 1 }
           ELSE Channel' = Append(Channel, arrived + 1) /\ dropped' = dropped
       ]_notifyVars

\* a payload has been dropped at a full channel
C17_Witness ==
  /\ dropped # {}
  /\ Len(Channel) = ChannelCap

PassedToHandler == dispatched \o InHandSeq

\* C39: the payloads passed to the device's handler are a subsequence of the
\* payloads the adapter callback delivered: each was delivered, they are in
\* the order of delivery and none is passed twice; the sequence only grows
\* at its end, by the oldest queued payload; a delivered payload that is
\* neither passed nor queued was dropped, and a payload is dropped only on
\* arriving at a channel that holds 10.
C39_NotificationOrder ==
  /\ [](\A i \in 1..Len(PassedToHandler) :
          /\ PassedToHandler[i] \in 1..arrived
          /\ \A j \in 1..(i - 1) : PassedToHandler[j] < PassedToHandler[i])
  /\ [](\A n \in 1..arrived :
          \/ n \in dropped
          \/ \E i \in 1..Len(PassedToHandler) : PassedToHandler[i] = n
          \/ \E i \in 1..Len(Channel) : Channel[i] = n)
  /\ [][ /\ \/ PassedToHandler' = PassedToHandler
            \/ /\ Channel # << >>
               /\ PassedToHandler' = Append(PassedToHandler, Head(Channel))
        /\ dropped' # dropped =>
             /\ Len(Channel) = ChannelCap
             /\ dropped' = dropped \cup { arrived' } ]_notifyVars

\* a payload was dropped and a payload delivered after it has been passed
\* to the handler
C39_Witness ==
  \E d \in dropped : \E i \in 1..Len(dispatched) : dispatched[i] > d

----------------------------------------------------------------------------
(* Part V: matching a discovery event against the descriptors             *)
(*                                                                         *)
(* findDeviceConfig and is_device_to_discover are pure functions of a      *)
(* descriptor list and a scan result, and processDiscoveredDevice decides  *)
(* from findDeviceConfig's answer and the live-set whether the event is    *)
(* ignored.  They are applied here to every list, advertisement and        *)
(* live-set drawn from the sets below.                                     *)

\* longest descriptor list explored
MaxDescriptors == 2

DescriptorNames == { "pen", "tracker" }

DescriptorUUIDs == { "svcPen", "svcTrk" }

Descriptors == [Name : DescriptorNames, ServiceUUID : DescriptorUUIDs]

DescriptorLists == UNION { [1..n -> Descriptors] : n \in 0..MaxDescriptors }

\* advertisements: a local name (possibly empty) and a set of service UUIDs
Advertisements ==
  [LocalName : DescriptorNames \cup { "", "Columbus" },
   UUIDs : SUBSET (DescriptorUUIDs \cup { "svcOther" })]

\* live-sets (as sets of descriptor names) the manager can hold: the name of
\* at most one configured descriptor
LiveNames(configs) ==
  { {} } \cup { { configs[i].Name } : i \in 1..Len(configs) }

VARIABLES
  matched         \* the last discovery event matched, and what was selected

matchVars == << matched >>

NotMatched ==
  [called |-> FALSE, configs |-> << >>, result |-> [LocalName |-> "", UUIDs |-> {}],
   live |-> {}, manager |-> 0, connector |-> 0, process |-> 0]

InitMatch == matched = NotMatched

\* processDiscoveredDevice up to the decision to connect: the descriptor
\* findDeviceConfig selects, or 0 (return nil) when there is none or when
\* m.devices already holds its name
processDiscoveredDeviceSelects(configs, live, result) ==
  LET cfg == findDeviceConfigIn(configs, result)
  IN  IF cfg = 0 THEN 0
      ELSE IF configs[cfg].Name \in live THEN 0
      ELSE cfg

\* One discovery event is matched by the manager and by the connector
MatchScanResult ==
  /\ ~matched.called
  /\ \E configs \in DescriptorLists : \E live \in LiveNames(configs) :
       \E result \in Advertisements :
         matched' = [called |-> TRUE, configs |-> configs, result |-> result,
                     live |-> live,
                     manager |-> findDeviceConfigIn(configs, result),
                     connector |-> is_device_to_discover_in(configs, result),
                     process |-> processDiscoveredDeviceSelects(configs, live, result)]

----------------------------------------------------------------------------
(* Properties of the matching *)

\* C22: for every scan result and descriptor list findDeviceConfig returns
\* a descriptor whose service UUID is advertised whenever the service UUID
\* of any configured descriptor is advertised, otherwise the descriptor
\* whose name equals the non-empty advertised name, otherwise none, and so
\* selects the same descriptor as is_device_to_discover.
C22_ScanMatchRule ==
  matched.called =>
    LET configs == matched.configs
        result == matched.result
        byUUID == { i \in 1..Len(configs) : configs[i].ServiceUUID \in result.UUIDs }
        byName == { i \in 1..Len(configs) :
                      result.LocalName # "" /\ configs[i].Name = result.LocalName }
    IN  /\ byUUID # {} => matched.manager \in byUUID
        /\ (byUUID = {} /\ byName # {}) => matched.manager \in byName
        /\ (byUUID = {} /\ byName = {}) => matched.manager = 0
        /\ matched.manager = matched.connector

----------------------------------------------------------------------------
(* Part VI: the decoders.  timeular.ResolveSide (single-byte side),        *)
(* timeular_side_resolver.Resolve_Side with GetSideHighOrLow and the bit   *)
(* predicates (tri-axis side), and columbus.SignalToCountryHex are pure    *)
(* functions of a byte slice.  A byte is a number in 0..255, a slice a     *)
(* sequence of bytes, a string a sequence of one-character strings, and an *)
(* error is named by its kind ("" is nil).                                 *)

\* longest input given to ResolveSide
MaxSideData == 2

\* longest input given to GetSideHighOrLow
MaxAxisLen == 4

\* longest payload given to Resolve_Side
MaxPayloadLen == 13

\* longest signal given to SignalToCountryHex
MaxSignalLen == 8

Bytes == 0..255

\* bytes around the patterns the axis read distinguishes
SampleBytes == { 0, 1, 2, 3, 128, 253, 254, 255 }

\* bytes whose hex digits differ in every position, one with a leading zero
SignalBytes == { 0, 10, 245 }

SeqsOf(S, n) == [1..n -> S]

\* inputs of ResolveSide: every one-byte slice and the other lengths over
\* the sample bytes
SideDataInputs ==
  SeqsOf(Bytes, 1)
    \cup UNION { SeqsOf(SampleBytes, n) : n \in (0..MaxSideData) \ {1} }

\* inputs of GetSideHighOrLow: every first byte with sampled second and
\* third bytes, and the other lengths over the sample bytes
AxisInputs ==
  { << b, c, d >> : b \in Bytes, c \in SampleBytes, d \in SampleBytes }
    \cup UNION { SeqsOf(SampleBytes, n) : n \in (0..MaxAxisLen) \ {3} }

\* the 3-byte blocks of a payload: low, high, and unreadable patterns
AxisBlocks ==
  { << 2, 0, 0 >>, << 3, 0, 0 >>, << 253, 255, 255 >>, << 0, 255, 255 >>,
    << 2, 255, 0 >>, << 253, 0, 0 >>, << 255, 255, 255 >>, << 0, 0, 0 >> }

\* 12-byte payloads: bytes 0, 4 and 8 are filler, the blocks sit at 1..3,
\* 5..7 and 9..11; and payloads of every other length
PayloadInputs ==
  { << f >> \o a \o << f >> \o b \o << f >> \o c :
      f \in { 0, 255 }, a \in AxisBlocks, b \in AxisBlocks, c \in AxisBlocks }
    \cup UNION { SeqsOf({ 2 }, n) : n \in (0..MaxPayloadLen) \ {12} }

SignalInputs == UNION { SeqsOf(SignalBytes, n) : n \in 0..MaxSignalLen }

VARIABLES
  decoded         \* the last decoder call: function, input and result

decodeVars == << decoded >>

NotDecoded == [fn |-> "none", input |-> << >>, out |-> [err |-> ""]]

InitDecode == decoded = NotDecoded

\* a & b on bytes
RECURSIVE BitAnd(_, _)
BitAnd(a, b) ==
  IF a = 0 \/ b = 0 THEN 0
  ELSE (a % 2) * (b % 2) + 2 * BitAnd(a \div 2, b \div 2)

\* mutant: accepts every value up to 8
ResolveSideNoLowerBound(data) ==
  IF Len(data) # 1 THEN [side |-> 0, err |-> "length"]
  ELSE IF data[1] > 8 THEN [side |-> 0, err |-> "value"]
  ELSE [side |-> data[1], err |-> ""]

\* timeular.ResolveSide
ResolveSide(data) ==
  IF Len(data) # 1 THEN [side |-> 0, err |-> "length"]
  ELSE IF data[1] < 1 \/ data[1] > 8 THEN [side |-> 0, err |-> "value"]
  ELSE [side |-> data[1], err |-> ""]

\* mutant: tests the lowest bit
IsIndicatorBitHighLowestBit(oneByte) == BitAnd(oneByte, 1) = 1

\* oneByte&2 == 2
IsIndicatorBitHigh(oneByte) == BitAnd(oneByte, 2) = 2

AreAllBitsHigh(oneByte) == oneByte = 255

AreAllBitsLow(oneByte) == oneByte = 0

\* mutant: looks at the second byte only
GetSideHighOrLowSecondByteOnly(sideBytes) ==
  IF Len(sideBytes) # 3 THEN [high |-> FALSE, err |-> "length"]
  ELSE IF IsIndicatorBitHigh(sideBytes[1])
       THEN IF AreAllBitsLow(sideBytes[2])
            THEN [high |-> FALSE, err |-> ""]
            ELSE [high |-> FALSE, err |-> "inactive"]
       ELSE IF AreAllBitsHigh(sideBytes[2])
            THEN [high |-> TRUE, err |-> ""]
            ELSE [high |-> FALSE, err |-> "inactive"]

\* GetSideHighOrLow: (false, nil) is a low read, (true, nil) a high read
GetSideHighOrLow(sideBytes) ==
  IF Len(sideBytes) # 3 THEN [high |-> FALSE, err |-> "length"]
  ELSE IF IsIndicatorBitHigh(sideBytes[1])
       THEN IF AreAllBitsLow(sideBytes[2]) /\ AreAllBitsLow(sideBytes[3])
            THEN [high |-> FALSE, err |-> ""]
            ELSE [high |-> FALSE, err |-> "inactive"]
       ELSE IF AreAllBitsHigh(sideBytes[2]) /\ AreAllBitsHigh(sideBytes[3])
            THEN [high |-> TRUE, err |-> ""]
            ELSE [high |-> FALSE, err |-> "inactive"]

\* Resolve_Side: payload[1:4], payload[5:8], payload[9:], side a byte
Resolve_Side(payload) ==
  IF Len(payload) # 12 THEN [side |-> 0, err |-> "length"]
  ELSE
    LET first == GetSideHighOrLow(SubSeq(payload, 2, 4))
        second == GetSideHighOrLow(SubSeq(payload, 6, 8))
        third == GetSideHighOrLow(SubSeq(payload, 10, Len(payload)))
        side1 == IF first.err = "" THEN (IF first.high THEN 2 ELSE 4) ELSE 0
        side2 == IF second.err = "" /\ second.high THEN (side1 + 6) % 256 ELSE side1
        side3 == IF third.high THEN (side2 + 1) % 256 ELSE side2
    IN  IF first.err # "" /\ second.err # ""
        THEN [side |-> 0, err |-> "undetermined"]
        ELSE IF third.err # "" THEN [side |-> 0, err |-> "undetermined"]
        ELSE [side |-> side3, err |-> ""]

HexDigits ==
  << "0", "1", "2", "3", "4", "5", "6", "7", "8", "9", "a", "b", "c", "d", "e", "f" >>

\* FormatSignalAsHex, fmt.Sprintf("%x", signal): two lowercase digits a byte
RECURSIVE FormatSignalAsHex(_)
FormatSignalAsHex(signal) ==
  IF signal = << >> THEN << >>
  ELSE << HexDigits[(Head(signal) \div 16) + 1], HexDigits[(Head(signal) % 16) + 1] >>
         \o FormatSignalAsHex(Tail(signal))

\* mutant: the slice starts one byte early
SignalToCountryHexOffByOneByte(signal) ==
  LET hexStr == FormatSignalAsHex(signal)
  IN  IF Len(hexStr) < 14 THEN [countryHex |-> << >>, err |-> "short"]
      ELSE [countryHex |-> SubSeq(hexStr, 9, 12), err |-> ""]

\* SignalToCountryHex: hexStr[10:14]
SignalToCountryHex(signal) ==
  LET hexStr == FormatSignalAsHex(signal)
  IN  IF Len(hexStr) < 14 THEN [countryHex |-> << >>, err |-> "short"]
      ELSE [countryHex |-> SubSeq(hexStr, 11, 14), err |-> ""]

\* A decoder is called once a behaviour
NotYetCalled == decoded.fn = "none"

Decode(fn, input, out) == decoded' = [fn |-> fn, input |-> input, out |-> out]

CallResolveSide ==
  /\ NotYetCalled
  /\ \E data \in SideDataInputs : Decode("ResolveSide", data, ResolveSide(data))

CallIsIndicatorBitHigh ==
  /\ NotYetCalled
  /\ \E x \in Bytes :
       Decode("IsIndicatorBitHigh", x, [is |-> IsIndicatorBitHigh(x), err |-> ""])

CallAreAllBitsHigh ==
  /\ NotYetCalled
  /\ \E x \in Bytes :
       Decode("AreAllBitsHigh", x, [is |-> AreAllBitsHigh(x), err |-> ""])

CallAreAllBitsLow ==
  /\ NotYetCalled
  /\ \E x \in Bytes :
       Decode("AreAllBitsLow", x, [is |-> AreAllBitsLow(x), err |-> ""])

CallGetSideHighOrLow ==
  /\ NotYetCalled
  /\ \E s \in AxisInputs : Decode("GetSideHighOrLow", s, GetSideHighOrLow(s))

CallResolve_Side ==
  /\ NotYetCalled
  /\ \E payload \in PayloadInputs :
       Decode("Resolve_Side", payload, Resolve_Side(payload))

CallSignalToCountryHex ==
  /\ NotYetCalled
  /\ \E signal \in SignalInputs :
       Decode("SignalToCountryHex", signal, SignalToCountryHex(signal))

----------------------------------------------------------------------------
(* Properties of the decoders *)

\* C25: for every 1-byte input [b], ResolveSide succeeds with value b if
\* and only if 1 <= b <= 8 and fails with an invalid-side-value error
\* otherwise; every input whose length is not 1 fails with a length error.
C25_SingleByteDecode ==
  decoded.fn = "ResolveSide" =>
    LET data == decoded.input
        out == decoded.out
    IN  IF Len(data) # 1 THEN out.err = "length"
        ELSE IF 1 <= data[1] /\ data[1] <= 8
             THEN out.err = "" /\ out.side = data[1]
             ELSE out.err = "value"

\* the largest valid side has been decoded
C25_Witness ==
  /\ decoded.fn = "ResolveSide"
  /\ decoded.input = << 8 >>
  /\ decoded.out = [side |-> 8, err |-> ""]

\* what an axis block reads: "low", "high" or "unreadable"
AxisRead(block) ==
  LET r == GetSideHighOrLow(block)
  IN  IF r.err # "" THEN "unreadable" ELSE IF r.high THEN "high" ELSE "low"

\* C26: for every 12-byte payload Resolve_Side computes the side as the sum
\* of +2 when the first axis reads low or +4 when it reads high, +6 when
\* the second axis reads high, and +1 when the third axis reads high; it
\* fails when the third axis is unreadable or when both the first and the
\* second axis are unreadable.
C26_TriAxisAccumulation ==
  (decoded.fn = "Resolve_Side" /\ Len(decoded.input) = 12) =>
    LET first == AxisRead(SubSeq(decoded.input, 2, 4))
        second == AxisRead(SubSeq(decoded.input, 6, 8))
        third == AxisRead(SubSeq(decoded.input, 10, 12))
        sum == (CASE first = "low" -> 2 [] first = "high" -> 4 [] OTHER -> 0)
                 + (IF second = "high" THEN 6 ELSE 0)
                 + (IF third = "high" THEN 1 ELSE 0)
    IN  IF third = "unreadable" \/ (first = "unreadable" /\ second = "unreadable")
        THEN decoded.out.err # ""
        ELSE decoded.out.err = "" /\ decoded.out.side = sum

\* C27: for every 12-byte payload on which Resolve_Side succeeds the side
\* is an integer in 1..8, and every payload whose length is not 12 is
\* rejected with a length error.
C27_TriAxisRange ==
  decoded.fn = "Resolve_Side" =>
    /\ Len(decoded.input) # 12 => decoded.out.err = "length"
    /\ (Len(decoded.input) = 12 /\ decoded.out.err = "") => decoded.out.side \in 1..8

\* C28: GetSideHighOrLow(s) fails with a length error iff len(s) # 3; for
\* length 3 it returns low (false) iff bit 1 of s[0] is set and the other
\* two bytes are 0x00, high (true) iff bit 1 of s[0] is clear and the other
\* two bytes are 0xFF, and fails with "this side is not active" otherwise.
C28_AxisRead ==
  decoded.fn = "GetSideHighOrLow" =>
    LET s == decoded.input
        out == decoded.out
        bit1 == (s[1] \div 2) % 2 = 1
    IN  /\ out.err = "length" <=> Len(s) # 3
        /\ Len(s) = 3 =>
             /\ (out.err = "" /\ ~out.high) <=> (bit1 /\ s[2] = 0 /\ s[3] = 0)
             /\ (out.err = "" /\ out.high) <=> (~bit1 /\ s[2] = 255 /\ s[3] = 255)
             /\ out.err = "inactive" <=>
                  ~( (bit1 /\ s[2] = 0 /\ s[3] = 0)
                     \/ (~bit1 /\ s[2] = 255 /\ s[3] = 255) )

\* a block with the indicator bit set and a zero second byte has been
\* rejected for its third byte alone
C28_Witness ==
  /\ decoded.fn = "GetSideHighOrLow"
  /\ decoded.input = << 2, 0, 255 >>
  /\ decoded.out.err = "inactive"

\* C29: for every byte x, IsIndicatorBitHigh(x) iff x & 2 = 2 (bit 1 is
\* set), AreAllBitsHigh(x) iff x = 0xFF, AreAllBitsLow(x) iff x = 0.
C29_BitPredicates ==
  /\ decoded.fn = "IsIndicatorBitHigh" =>
       (decoded.out.is <=> (decoded.input \div 2) % 2 = 1)
  /\ decoded.fn = "AreAllBitsHigh" => (decoded.out.is <=> decoded.input = 255)
  /\ decoded.fn = "AreAllBitsLow" => (decoded.out.is <=> decoded.input = 0)

\* the indicator bit was found set in a byte whose lowest bit is clear
C29_Witness ==
  /\ decoded.fn = "IsIndicatorBitHigh"
  /\ decoded.input = 254
  /\ decoded.out.is

\* C30: SignalToCountryHex fails with a signal-too-short error iff the
\* signal has fewer than 7 bytes (its lowercase hex encoding fewer than 14
\* characters), and otherwise returns the lowercase hex of bytes 5 and 6.
C30_CountryHex ==
  decoded.fn = "SignalToCountryHex" =>
    LET signal == decoded.input
        out == decoded.out
        Hex(b) == << HexDigits[(b \div 16) + 1], HexDigits[(b % 16) + 1] >>
    IN  /\ out.err = "short" <=> Len(signal) < 7
        /\ out.err = "short" <=> 2 * Len(signal) < 14
        /\ Len(signal) >= 7 =>
             /\ out.err = ""
             /\ out.countryHex = Hex(signal[6]) \o Hex(signal[7])

\* a country id with a leading zero digit was extracted from a signal
\* longer than seven bytes
C30_Witness ==
  /\ decoded.fn = "SignalToCountryHex"
  /\ Len(decoded.input) = 8
  /\ decoded.input[6] = 10 /\ decoded.input[7] = 245 /\ decoded.input[5] = 0
  /\ decoded.out = [countryHex |-> << "0", "a", "f", "5" >>, err |-> ""]

----------------------------------------------------------------------------
(* Part VII: the polling listener of package timeular.                     *)
(* Establish_Timeular_Characteristic_Listener starts read_timeular_side_   *)
(* info, which every second reads the characteristic and hands a changed   *)
(* payload to its unbuffered output channel, and returns the function that *)
(* stops it: stop_channel <- true; close(stop_channel), stop_channel being *)
(* unbuffered too.  The output channel is read by the caller's             *)
(* listen_to_bluetooth_events task, which Connect_And_Reconnect_To_Devices *)
(* tells to stop when a device has disconnected.                           *)

\* payloads the consumer takes before the model stops counting them
MaxPayloads == 3

\* 12-byte payloads characteristic.Read can fill in
Readings ==
  { << 0, 2, 0, 0, 0, 2, 0, 0, 0, 2, 0, 0 >>,
    << 0, 253, 255, 255, 0, 2, 0, 0, 0, 2, 0, 0 >>,
    << 0, 2, 0, 0, 0, 253, 255, 255, 0, 253, 255, 255 >> }

VARIABLES
  pollPc,         \* read_timeular_side_info: "none", "select", "send", "exited"
  old_side,       \* its old_side, a hex string
  payload,        \* the payload it is handing to the output channel
  unsubPc,        \* the returned function: "idle", "send", "close", "returned"
  stopClosed,     \* stop_channel has been closed
  listening,      \* the consumer of the output channel: "none", "receiving", "stopped"
  taken           \* payloads the consumer has received

pollVars == << pollPc, old_side, payload, unsubPc, stopClosed, listening, taken >>

InitPolling ==
  /\ pollPc = "none"
  /\ old_side = << >>
  /\ payload = << >>
  /\ unsubPc = "idle"
  /\ stopClosed = FALSE
  /\ listening = "none"
  /\ taken = 0

\* make both channels, go read_timeular_side_info(...), return the function
Establish_Timeular_Characteristic_Listener ==
  /\ pollPc = "none"
  /\ pollPc' = "select"
  /\ UNCHANGED << old_side, payload, unsubPc, stopClosed, listening, taken >>

\* go listen_to_bluetooth_events(discovered_characteristics, stop_channel),
\* once every device is connected
ListenerStarts ==
  /\ pollPc # "none"
  /\ listening = "none"
  /\ listening' = "receiving"
  /\ UNCHANGED << pollPc, old_side, payload, unsubPc, stopClosed, taken >>

\* case <-tick.C: Read a payload; a payload whose hex string differs from
\* old_side (and has length 12) is handed to the output channel
read_timeular_side_info(p) ==
  /\ pollPc = "select"
  /\ LET new_side == FormatSignalAsHex(p)
     IN IF old_side # new_side /\ Len(p) = 12
        THEN /\ pollPc' = "send"
             /\ payload' = p
             /\ UNCHANGED old_side
        ELSE /\ old_side' = new_side
             /\ UNCHANGED << pollPc, payload >>
  /\ UNCHANGED << unsubPc, stopClosed, listening, taken >>

\* channel <- payload completes with the consumer's receive; old_side = new_side
PayloadTaken ==
  /\ pollPc = "send"
  /\ listening = "receiving"
  /\ pollPc' = "select"
  /\ old_side' = FormatSignalAsHex(payload)
  /\ payload' = << >>
  /\ taken' = IF taken < MaxPayloads THEN taken + 1 ELSE taken
  /\ UNCHANGED << unsubPc, stopClosed, listening >>

\* the consumer is told to stop after a disconnect (stop_channel <- true of
\* Connect_And_Reconnect_To_Devices) and receives no more
ListenerStops ==
  /\ listening = "receiving"
  /\ listening' = "stopped"
  /\ UNCHANGED << pollPc, old_side, payload, unsubPc, stopClosed, taken >>

\* disconnect_all calls Disable_Characteristic_Listener(): the function
\* reaches stop_channel <- true
Disable_Characteristic_Listener ==
  /\ pollPc # "none"
  /\ unsubPc = "idle"
  /\ unsubPc' = "send"
  /\ UNCHANGED << pollPc, old_side, payload, stopClosed, listening, taken >>

\* case <-stop_channel of the task's select meets the function's send:
\* tick.Stop(); return
StopReceived ==
  /\ unsubPc = "send"
  /\ pollPc = "select"
  /\ pollPc' = "exited"
  /\ unsubPc' = "close"
  /\ UNCHANGED << old_side, payload, stopClosed, listening, taken >>

\* close(stop_channel); the function returns
StopChannelClosed ==
  /\ unsubPc = "close"
  /\ stopClosed' = TRUE
  /\ unsubPc' = "returned"
  /\ UNCHANGED << pollPc, old_side, payload, listening, taken >>

----------------------------------------------------------------------------
(* Properties of the polling listener *)

\* C37: invoking the function returned by
\* Establish_Timeular_Characteristic_Listener always terminates and makes
\* read_timeular_side_info exit, whatever the task is doing when it is
\* invoked: the function is never left at its send on stop_channel with the
\* task at its send on the output channel and the consumer of that channel
\* stopped.
C37_UnsubscribeTerminates ==
  ~( /\ unsubPc = "send"
     /\ pollPc = "send"
     /\ listening = "stopped" )

----------------------------------------------------------------------------
(***************************************************************************)
(* Part VIII: one timeular.Device of pkg/timeular/device.go.  Its fields   *)
(* are read and written without a lock by the goroutine that delivers      *)
(* notifications (ble.Manager's handleNotifications, which calls           *)
(* ProcessNotification), by the goroutines started with                    *)
(* "go d.startPolling()", and by the application goroutine that calls      *)
(* StartPolling, Stop, OnSideChange and SetCharacteristic.  The writes of  *)
(* ProcessSideData are therefore separate steps of the calling task.       *)
(***************************************************************************)

MaxPollTasks == 2   \* startPolling goroutines that can exist at one time

PollTasks == 1..MaxPollTasks

\* Task 0 is the notification goroutine, the others are polling goroutines.
SideTasks == 0..MaxPollTasks

\* Payloads of a notification or of a characteristic read: empty, a byte
\* below the range, two sides, a byte above the range, and two bytes.
SidePayloads == { << >>, << 0 >>, << 1 >>, << 2 >>, << 9 >>, << 1, 2 >> }

StopChannelCap == 1

VARIABLES
  d_running,         \* d.running
  d_stopChannel,     \* number of values buffered in d.stopChannel (cap 1)
  currentSide,       \* d.currentSide
  lastSide,          \* d.lastSide
  sideChangeHandler, \* d.sideChangeHandler is set
  characteristic,    \* d.characteristic is set
  tpc,               \* per task: its position
  tside,             \* per task: the side of the payload it is processing
  tprev,             \* per task: d.currentSide as the call read it
  lastCall           \* the ProcessSideData call that returned last

deviceVars == << d_running, d_stopChannel, currentSide, lastSide,
                 sideChangeHandler, characteristic, tpc, tside, tprev, lastCall >>

\* NewDevice: the zero value of every field but name, stopChannel
\* (capacity 1) and pollInterval; no task exists.
NewDevice ==
  /\ d_running = FALSE
  /\ d_stopChannel = 0
  /\ currentSide = 0
  /\ lastSide = 0
  /\ sideChangeHandler = FALSE
  /\ characteristic = FALSE
  /\ tpc = [t \in SideTasks |-> IF t = 0 THEN "idle" ELSE "none"]
  /\ tside = [t \in SideTasks |-> 0]
  /\ tprev = [t \in SideTasks |-> 0]
  /\ lastCall = [task |-> 0, out |-> "none"]

\* Where a task is when it is not inside ProcessSideData.
Home(t) == IF t = 0 THEN "idle" ELSE "select"

\* OnSideChange: d.sideChangeHandler = handler.
OnSideChange ==
  /\ ~sideChangeHandler
  /\ sideChangeHandler' = TRUE
  /\ UNCHANGED << d_running, d_stopChannel, currentSide, lastSide,
                  characteristic, tpc, tside, tprev, lastCall >>

\* SetCharacteristic: d.characteristic = char.
SetCharacteristic ==
  /\ ~characteristic
  /\ characteristic' = TRUE
  /\ UNCHANGED << d_running, d_stopChannel, currentSide, lastSide,
                  sideChangeHandler, tpc, tside, tprev, lastCall >>

\* "if !d.running { go d.startPolling() }": the statement shared by
\* ProcessNotification and StartPolling.  The new goroutine has not run yet.
GoStartPolling ==
  IF d_running
    THEN tpc' = tpc
    ELSE \E p \in PollTasks :
           /\ tpc[p] = "none"
           /\ tpc' = [tpc EXCEPT ![p] = "spawned"]

\* StartPolling, called by the application.
StartPolling ==
  /\ GoStartPolling
  /\ tpc' # tpc
  /\ UNCHANGED << d_running, d_stopChannel, currentSide, lastSide,
                  sideChangeHandler, characteristic, tside, tprev, lastCall >>

\* startPolling up to its select: d.running = true, the ticker is created.
startPolling(p) ==
  /\ tpc[p] = "spawned"
  /\ d_running' = TRUE
  /\ tpc' = [tpc EXCEPT ![p] = "select"]
  /\ UNCHANGED << d_stopChannel, currentSide, lastSide, sideChangeHandler,
                  characteristic, tside, tprev, lastCall >>

\* startPolling, case <-d.stopChannel: d.running = false; return.
PollingStops(p) ==
  /\ tpc[p] = "select"
  /\ d_stopChannel > 0
  /\ d_stopChannel' = d_stopChannel - 1
  /\ d_running' = FALSE
  /\ tpc' = [tpc EXCEPT ![p] = "none"]
  /\ UNCHANGED << currentSide, lastSide, sideChangeHandler, characteristic,
                  tside, tprev, lastCall >>

\* Stop: if d.running, a send on d.stopChannel that is skipped when the
\* buffer is full.
Stop ==
  /\ d_running
  /\ d_stopChannel' = IF d_stopChannel < StopChannelCap
                        THEN d_stopChannel + 1 ELSE d_stopChannel
  /\ UNCHANGED << d_running, currentSide, lastSide, sideChangeHandler,
                  characteristic, tpc, tside, tprev, lastCall >>

\* The checks at the head of ProcessSideData.
AcceptedSide(data) == Len(data) = 1 /\ data[1] >= 1 /\ data[1] <= 8

\* ProcessSideData by task t, up to "d.lastSide = d.currentSide": a payload
\* that fails the checks returns an error and writes nothing.
ProcessSideData(t, data) ==
  IF AcceptedSide(data)
    THEN /\ lastSide' = currentSide
         /\ tpc' = [tpc EXCEPT ![t] = "setCurrent"]
         /\ tside' = [tside EXCEPT ![t] = data[1]]
         /\ tprev' = [tprev EXCEPT ![t] = currentSide]
         /\ UNCHANGED << currentSide, lastCall >>
    ELSE /\ lastCall' = [task |-> t, out |-> "rejected"]
         /\ UNCHANGED << currentSide, lastSide, tpc, tside, tprev >>

\* ProcessSideData, "d.currentSide = side".
SetCurrentSide(t) ==
  /\ tpc[t] = "setCurrent"
  /\ currentSide' = tside[t]
  /\ tpc' = [tpc EXCEPT ![t] = "compare"]
  /\ UNCHANGED << d_running, d_stopChannel, lastSide, sideChangeHandler,
                  characteristic, tside, tprev, lastCall >>

\* ProcessSideData, "if d.currentSide != d.lastSide && d.sideChangeHandler
\* != nil { return d.sideChangeHandler(d.name, d.currentSide) }".
CompareSides(t) ==
  /\ tpc[t] = "compare"
  /\ lastCall' = [task |-> t,
                   out |-> IF currentSide # lastSide /\ sideChangeHandler
                             THEN "invoked" ELSE "silent"]
  /\ tpc' = [tpc EXCEPT ![t] = Home(t)]
  /\ tside' = [tside EXCEPT ![t] = 0]
  /\ tprev' = [tprev EXCEPT ![t] = 0]
  /\ UNCHANGED << d_running, d_stopChannel, currentSide, lastSide,
                  sideChangeHandler, characteristic >>

\* ProcessNotification, called by the notification goroutine with no data
\* handler set: a payload with data goes to ProcessSideData, an empty one
\* starts polling unless d.running.
ProcessNotification(data) ==
  /\ tpc[0] = "idle"
  /\ IF Len(data) > 0
       THEN /\ ProcessSideData(0, data)
            /\ UNCHANGED << d_running, d_stopChannel, sideChangeHandler,
                            characteristic >>
       ELSE /\ GoStartPolling
            /\ UNCHANGED << d_running, d_stopChannel, currentSide, lastSide,
                            sideChangeHandler, characteristic, tside, tprev,
                            lastCall >>

\* startPolling, case <-ticker.C with pollDeviceState: without a
\* characteristic an error is printed; otherwise the bytes read (at most
\* one, the buffer has length 1) go to ProcessSideData.
pollDeviceState(p, data) ==
  /\ tpc[p] = "select"
  /\ Len(data) <= 1
  /\ IF characteristic
       THEN ProcessSideData(p, data)
       ELSE UNCHANGED << currentSide, lastSide, tpc, tside, tprev, lastCall >>
  /\ UNCHANGED << d_running, d_stopChannel, sideChangeHandler,
                  characteristic >>

\* The startPolling goroutines that exist.
PollingTasks == { p \in PollTasks : tpc[p] # "none" }

\* C38: at most one polling task (startPolling) exists per Device at any
\* time, whatever the interleaving of ProcessNotification with empty data,
\* StartPolling and Stop.
C38_AtMostOnePollingTask == Cardinality(PollingTasks) <= 1

\* C40: a ProcessSideData call that accepted its payload returns with
\* lastSide equal to the currentSide it found and currentSide equal to the
\* new side, and it invoked the side-change handler exactly when the new
\* side differs from the currentSide it found (and a handler is set); a
\* rejected payload changes neither field; both fields stay in 0..8.
C40_SideTracking ==
  [][ /\ \A t \in SideTasks :
           (tpc[t] = "compare" /\ tpc'[t] # "compare") =>
                /\ currentSide' = tside[t]
                /\ lastSide' = tprev[t]
                /\ (lastCall'.out = "invoked") <=>
                     (tside[t] # tprev[t] /\ sideChangeHandler)
      /\ (lastCall' # lastCall /\ lastCall'.out = "rejected") =>
           (currentSide' = currentSide /\ lastSide' = lastSide)
      /\ currentSide' \in 0..8
      /\ lastSide' \in 0..8 ]_deviceVars

----------------------------------------------------------------------------
(* Specifications *)

allVars == << vars, enableVars, connectorVars, notifyVars, matchVars, decodeVars,
             pollVars, deviceVars >>

Init == NewManager /\ InitEnable /\ InitConnector /\ InitNotify /\ InitMatch
          /\ InitDecode /\ InitPolling /\ NewDevice

(* The manager started by one ConnectDevices call *)

Next ==
  \/ ConnectDevicesFail(1) /\ UNCHANGED << enableVars, connectorVars, notifyVars, matchVars, decodeVars, pollVars, deviceVars >>
  \/ ConnectDevicesOk(1) /\ UNCHANGED << enableVars, connectorVars, notifyVars, matchVars, decodeVars, pollVars, deviceVars >>
  \/ ManagerStopAtTop /\ UNCHANGED << enableVars, connectorVars, notifyVars, matchVars, decodeVars, pollVars, deviceVars >>
  \/ StartDiscovery /\ UNCHANGED << enableVars, connectorVars, notifyVars, matchVars, decodeVars, pollVars, deviceVars >>
  \/ RetrySleep /\ UNCHANGED << enableVars, connectorVars, notifyVars, matchVars, decodeVars, pollVars, deviceVars >>
  \/ setupDisconnectMonitoring /\ UNCHANGED << enableVars, connectorVars, notifyVars, matchVars, decodeVars, pollVars, deviceVars >>
  \/ MonitorStop /\ UNCHANGED << enableVars, connectorVars, notifyVars, matchVars, decodeVars, pollVars, deviceVars >>
  \/ MonitorDisconnect /\ UNCHANGED << enableVars, connectorVars, notifyVars, matchVars, decodeVars, pollVars, deviceVars >>
  \/ ReconnectSleep /\ UNCHANGED << enableVars, connectorVars, notifyVars, matchVars, decodeVars, pollVars, deviceVars >>
  \/ \E r \in Runs : ScanReturns(r) /\ UNCHANGED << enableVars, connectorVars, notifyVars, matchVars, decodeVars, pollVars, deviceVars >>
  \/ \E r \in Runs : ScanFails(r) /\ UNCHANGED << enableVars, connectorVars, notifyVars, matchVars, decodeVars, pollVars, deviceVars >>
  \/ CollectDevice /\ UNCHANGED << enableVars, connectorVars, notifyVars, matchVars, decodeVars, pollVars, deviceVars >>
  \/ CollectClosed /\ UNCHANGED << enableVars, connectorVars, notifyVars, matchVars, decodeVars, pollVars, deviceVars >>
  \/ CollectError /\ UNCHANGED << enableVars, connectorVars, notifyVars, matchVars, decodeVars, pollVars, deviceVars >>
  \/ CollectTimeout /\ UNCHANGED << enableVars, connectorVars, notifyVars, matchVars, decodeVars, pollVars, deviceVars >>
  \/ \E a \in Addresses : processDiscoveredDevice(a) /\ UNCHANGED << enableVars, connectorVars, notifyVars, matchVars, decodeVars, pollVars, deviceVars >>
  \/ ConnectBegin /\ UNCHANGED << enableVars, connectorVars, notifyVars, matchVars, decodeVars, pollVars, deviceVars >>
  \/ ConnectFails /\ UNCHANGED << enableVars, connectorVars, notifyVars, matchVars, decodeVars, pollVars, deviceVars >>
  \/ ConnectSucceeds /\ UNCHANGED << enableVars, connectorVars, notifyVars, matchVars, decodeVars, pollVars, deviceVars >>
  \/ DiscoverServices /\ UNCHANGED << enableVars, connectorVars, notifyVars, matchVars, decodeVars, pollVars, deviceVars >>
  \/ DiscoverCharacteristics /\ UNCHANGED << enableVars, connectorVars, notifyVars, matchVars, decodeVars, pollVars, deviceVars >>
  \/ EnableNotificationsFails /\ UNCHANGED << enableVars, connectorVars, notifyVars, matchVars, decodeVars, pollVars, deviceVars >>
  \/ EnableNotificationsSucceeds /\ UNCHANGED << enableVars, connectorVars, notifyVars, matchVars, decodeVars, pollVars, deviceVars >>
  \/ CallbackReturnsNil /\ UNCHANGED << enableVars, connectorVars, notifyVars, matchVars, decodeVars, pollVars, deviceVars >>
  \/ CallbackSends /\ UNCHANGED << enableVars, connectorVars, notifyVars, matchVars, decodeVars, pollVars, deviceVars >>
  \/ CallbackChecksCount /\ UNCHANGED << enableVars, connectorVars, notifyVars, matchVars, decodeVars, pollVars, deviceVars >>
  \/ \E h \in Handles : LinkDrops(h) /\ UNCHANGED << enableVars, connectorVars, notifyVars, matchVars, decodeVars, pollVars, deviceVars >>
  \/ ObserverRemoves /\ UNCHANGED << enableVars, connectorVars, notifyVars, matchVars, decodeVars, pollVars, deviceVars >>
  \/ ObserverSignals /\ UNCHANGED << enableVars, connectorVars, notifyVars, matchVars, decodeVars, pollVars, deviceVars >>
  \/ CloseBegins /\ UNCHANGED << enableVars, connectorVars, notifyVars, matchVars, decodeVars, pollVars, deviceVars >>
  \/ CloseReturnsNil /\ UNCHANGED << enableVars, connectorVars, notifyVars, matchVars, decodeVars, pollVars, deviceVars >>
  \/ CloseDisconnects /\ UNCHANGED << enableVars, connectorVars, notifyVars, matchVars, decodeVars, pollVars, deviceVars >>

Spec == Init /\ [][Next]_allVars

(* Calls of the two adapter-enable paths *)
(* The manager without Close and without scan or connect errors, over more *)
(* runs: the paths on which the connect handler outlives its run           *)

NextObserver ==
  \/ ConnectDevicesOk(1) /\ UNCHANGED << enableVars, connectorVars, notifyVars, matchVars, decodeVars, pollVars, deviceVars >>
  \/ StartDiscoveryWithin(MaxObserverRuns) /\ UNCHANGED << enableVars, connectorVars, notifyVars, matchVars, decodeVars, pollVars, deviceVars >>
  \/ RetrySleep /\ UNCHANGED << enableVars, connectorVars, notifyVars, matchVars, decodeVars, pollVars, deviceVars >>
  \/ setupDisconnectMonitoring /\ UNCHANGED << enableVars, connectorVars, notifyVars, matchVars, decodeVars, pollVars, deviceVars >>
  \/ MonitorDisconnect /\ UNCHANGED << enableVars, connectorVars, notifyVars, matchVars, decodeVars, pollVars, deviceVars >>
  \/ ReconnectSleep /\ UNCHANGED << enableVars, connectorVars, notifyVars, matchVars, decodeVars, pollVars, deviceVars >>
  \/ CollectDevice /\ UNCHANGED << enableVars, connectorVars, notifyVars, matchVars, decodeVars, pollVars, deviceVars >>
  \/ CollectTimeout /\ UNCHANGED << enableVars, connectorVars, notifyVars, matchVars, decodeVars, pollVars, deviceVars >>
  \/ \E a \in Addresses : processDiscoveredDevice(a) /\ UNCHANGED << enableVars, connectorVars, notifyVars, matchVars, decodeVars, pollVars, deviceVars >>
  \/ ConnectBegin /\ UNCHANGED << enableVars, connectorVars, notifyVars, matchVars, decodeVars, pollVars, deviceVars >>
  \/ ConnectSucceedsWithin(MaxObserverHandles) /\ UNCHANGED << enableVars, connectorVars, notifyVars, matchVars, decodeVars, pollVars, deviceVars >>
  \/ DiscoverServices /\ UNCHANGED << enableVars, connectorVars, notifyVars, matchVars, decodeVars, pollVars, deviceVars >>
  \/ DiscoverCharacteristics /\ UNCHANGED << enableVars, connectorVars, notifyVars, matchVars, decodeVars, pollVars, deviceVars >>
  \/ EnableNotificationsSucceeds /\ UNCHANGED << enableVars, connectorVars, notifyVars, matchVars, decodeVars, pollVars, deviceVars >>
  \/ CallbackReturnsNil /\ UNCHANGED << enableVars, connectorVars, notifyVars, matchVars, decodeVars, pollVars, deviceVars >>
  \/ CallbackSends /\ UNCHANGED << enableVars, connectorVars, notifyVars, matchVars, decodeVars, pollVars, deviceVars >>
  \/ CallbackChecksCount /\ UNCHANGED << enableVars, connectorVars, notifyVars, matchVars, decodeVars, pollVars, deviceVars >>
  \/ \E h \in Handles : LinkDrops(h) /\ UNCHANGED << enableVars, connectorVars, notifyVars, matchVars, decodeVars, pollVars, deviceVars >>
  \/ ObserverRemoves /\ UNCHANGED << enableVars, connectorVars, notifyVars, matchVars, decodeVars, pollVars, deviceVars >>
  \/ ObserverSignals /\ UNCHANGED << enableVars, connectorVars, notifyVars, matchVars, decodeVars, pollVars, deviceVars >>

SpecObserver == Init /\ [][NextObserver]_allVars

NextEnable ==
  \/ ConnectDevicesFail(MaxConnectCalls) /\ UNCHANGED << enableVars, connectorVars, notifyVars, matchVars, decodeVars, pollVars, deviceVars >>
  \/ ConnectDevicesOk(MaxConnectCalls) /\ UNCHANGED << enableVars, connectorVars, notifyVars, matchVars, decodeVars, pollVars, deviceVars >>
  \/ \E c \in Callers : Discover_Multiple_Characteristics(c) /\ UNCHANGED << vars, connectorVars, notifyVars, matchVars, decodeVars, pollVars, deviceVars >>
  \/ \E c \in Callers : Lock(c) /\ UNCHANGED << vars, connectorVars, notifyVars, matchVars, decodeVars, pollVars, deviceVars >>
  \/ \E c \in Callers : CheckEnabled(c) /\ UNCHANGED << vars, connectorVars, notifyVars, matchVars, decodeVars, pollVars, deviceVars >>
  \/ \E c \in Callers : EnableFails(c) /\ UNCHANGED << vars, connectorVars, notifyVars, matchVars, decodeVars, pollVars, deviceVars >>
  \/ \E c \in Callers : EnableSucceeds(c) /\ UNCHANGED << vars, connectorVars, notifyVars, matchVars, decodeVars, pollVars, deviceVars >>
  \/ \E c \in Callers : EnableSleep(c) /\ UNCHANGED << vars, connectorVars, notifyVars, matchVars, decodeVars, pollVars, deviceVars >>
  \/ \E c \in Callers : Unlock(c) /\ UNCHANGED << vars, connectorVars, notifyVars, matchVars, decodeVars, pollVars, deviceVars >>
  \/ \E c \in Callers : GoRunScan(c) /\ UNCHANGED << vars, connectorVars, notifyVars, matchVars, decodeVars, pollVars, deviceVars >>

SpecEnable == Init /\ [][NextEnable]_allVars

(* One Connect_To_Multiple_Characteristics call *)
NextConnector ==
  \/ RunScanFirst /\ UNCHANGED << vars, enableVars, batchVars, notifyVars, matchVars, decodeVars, pollVars, deviceVars >>
  \/ (\E s \in Scans : ScanStartFails(s)) /\ UNCHANGED << vars, enableVars, batchVars, notifyVars, matchVars, decodeVars, pollVars, deviceVars >>
  \/ (\E a \in Addresses : ScanCallback(a)) /\ UNCHANGED << vars, enableVars, batchVars, notifyVars, matchVars, decodeVars, pollVars, deviceVars >>
  \/ (\E s \in Scans : RunScanReturns(s)) /\ UNCHANGED << vars, enableVars, batchVars, notifyVars, matchVars, decodeVars, pollVars, deviceVars >>
  \/ (\E s \in Scans : CtxDeadline(s)) /\ UNCHANGED << vars, enableVars, batchVars, notifyVars, matchVars, decodeVars, pollVars, deviceVars >>
  \/ PdcSettle /\ UNCHANGED << vars, enableVars, batchVars, notifyVars, matchVars, decodeVars, pollVars, deviceVars >>
  \/ ConnectAttemptFails /\ UNCHANGED << vars, enableVars, batchVars, notifyVars, matchVars, decodeVars, pollVars, deviceVars >>
  \/ ConnectAttemptSucceeds /\ UNCHANGED << vars, enableVars, batchVars, notifyVars, matchVars, decodeVars, pollVars, deviceVars >>
  \/ DiscoverFails /\ UNCHANGED << vars, enableVars, batchVars, notifyVars, matchVars, decodeVars, pollVars, deviceVars >>
  \/ DiscoverSucceeds /\ UNCHANGED << vars, enableVars, batchVars, notifyVars, matchVars, decodeVars, pollVars, deviceVars >>
  \/ ListenerFails /\ UNCHANGED << vars, enableVars, batchVars, notifyVars, matchVars, decodeVars, pollVars, deviceVars >>
  \/ ListenerSucceeds /\ UNCHANGED << vars, enableVars, batchVars, notifyVars, matchVars, decodeVars, pollVars, deviceVars >>
  \/ ChannelHandoff /\ UNCHANGED << vars, enableVars, batchVars, notifyVars, matchVars, decodeVars, pollVars, deviceVars >>
  \/ restart_scan_for_remaining /\ UNCHANGED << vars, enableVars, batchVars, notifyVars, matchVars, decodeVars, pollVars, deviceVars >>
  \/ RemainingCtxDone /\ UNCHANGED << vars, enableVars, batchVars, notifyVars, matchVars, decodeVars, pollVars, deviceVars >>
  \/ restart_scan_after_failure /\ UNCHANGED << vars, enableVars, batchVars, notifyVars, matchVars, decodeVars, pollVars, deviceVars >>
  \/ FailureRestart /\ UNCHANGED << vars, enableVars, batchVars, notifyVars, matchVars, decodeVars, pollVars, deviceVars >>
  \/ FailureCtxDone /\ UNCHANGED << vars, enableVars, batchVars, notifyVars, matchVars, decodeVars, pollVars, deviceVars >>
  \/ (\E s \in Scans : MonitorErrReceived(s)) /\ UNCHANGED << vars, enableVars, batchVars, notifyVars, matchVars, decodeVars, pollVars, deviceVars >>
  \/ (\E s \in Scans : ScanErrReceived(s)) /\ UNCHANGED << vars, enableVars, batchVars, notifyVars, matchVars, decodeVars, pollVars, deviceVars >>
  \/ Setup_Disconnect_Listener /\ UNCHANGED << vars, enableVars, notifyVars, matchVars, decodeVars, pollVars, deviceVars >>
  \/ (\E a \in Addresses : PeripheralDrops(a)) /\ UNCHANGED << vars, enableVars, notifyVars, matchVars, decodeVars, pollVars, deviceVars >>
  \/ HandlerSignals /\ UNCHANGED << vars, enableVars, notifyVars, matchVars, decodeVars, pollVars, deviceVars >>
  \/ disconnect_all /\ UNCHANGED << vars, enableVars, notifyVars, matchVars, decodeVars, pollVars, deviceVars >>
  \/ SupervisorReconnects /\ UNCHANGED << vars, enableVars, notifyVars, matchVars, decodeVars, pollVars, deviceVars >>
  \/ SupervisorRetries /\ UNCHANGED << vars, enableVars, notifyVars, matchVars, decodeVars, pollVars, deviceVars >>

SpecConnector == Init /\ [][NextConnector]_allVars

(* The notifications of one connected device *)
NextNotify ==
  \/ NotificationCallback /\ UNCHANGED << vars, enableVars, connectorVars, matchVars, decodeVars, pollVars, deviceVars >>
  \/ handleNotifications /\ UNCHANGED << vars, enableVars, connectorVars, matchVars, decodeVars, pollVars, deviceVars >>
  \/ HandlerReturnsNil /\ UNCHANGED << vars, enableVars, connectorVars, matchVars, decodeVars, pollVars, deviceVars >>
  \/ HandlerReturnsError /\ UNCHANGED << vars, enableVars, connectorVars, matchVars, decodeVars, pollVars, deviceVars >>

SpecNotify == Init /\ [][NextNotify]_allVars

NextMatch ==
  \/ MatchScanResult /\ UNCHANGED << vars, enableVars, connectorVars, notifyVars, decodeVars, pollVars, deviceVars >>

SpecMatch == Init /\ [][NextMatch]_allVars

NextDecode ==
  \/ CallResolveSide /\ UNCHANGED << vars, enableVars, connectorVars, notifyVars, matchVars, pollVars, deviceVars >>
  \/ CallIsIndicatorBitHigh /\ UNCHANGED << vars, enableVars, connectorVars, notifyVars, matchVars, pollVars, deviceVars >>
  \/ CallAreAllBitsHigh /\ UNCHANGED << vars, enableVars, connectorVars, notifyVars, matchVars, pollVars, deviceVars >>
  \/ CallAreAllBitsLow /\ UNCHANGED << vars, enableVars, connectorVars, notifyVars, matchVars, pollVars, deviceVars >>
  \/ CallGetSideHighOrLow /\ UNCHANGED << vars, enableVars, connectorVars, notifyVars, matchVars, pollVars, deviceVars >>
  \/ CallResolve_Side /\ UNCHANGED << vars, enableVars, connectorVars, notifyVars, matchVars, pollVars, deviceVars >>
  \/ CallSignalToCountryHex /\ UNCHANGED << vars, enableVars, connectorVars, notifyVars, matchVars, pollVars, deviceVars >>

SpecDecode == Init /\ [][NextDecode]_allVars

NextPolling ==
  \/ Establish_Timeular_Characteristic_Listener /\ UNCHANGED << vars, enableVars, connectorVars, notifyVars, matchVars, decodeVars, deviceVars >>
  \/ ListenerStarts /\ UNCHANGED << vars, enableVars, connectorVars, notifyVars, matchVars, decodeVars, deviceVars >>
  \/ \E p \in Readings : read_timeular_side_info(p) /\ UNCHANGED << vars, enableVars, connectorVars, notifyVars, matchVars, decodeVars, deviceVars >>
  \/ PayloadTaken /\ UNCHANGED << vars, enableVars, connectorVars, notifyVars, matchVars, decodeVars, deviceVars >>
  \/ ListenerStops /\ UNCHANGED << vars, enableVars, connectorVars, notifyVars, matchVars, decodeVars, deviceVars >>
  \/ Disable_Characteristic_Listener /\ UNCHANGED << vars, enableVars, connectorVars, notifyVars, matchVars, decodeVars, deviceVars >>
  \/ StopReceived /\ UNCHANGED << vars, enableVars, connectorVars, notifyVars, matchVars, decodeVars, deviceVars >>
  \/ StopChannelClosed /\ UNCHANGED << vars, enableVars, connectorVars, notifyVars, matchVars, decodeVars, deviceVars >>

SpecPolling == Init /\ [][NextPolling]_allVars

(* One timeular.Device and the goroutines that use it *)

NextDevice ==
  \/ OnSideChange /\ UNCHANGED << vars, enableVars, connectorVars, notifyVars, matchVars, decodeVars, pollVars >>
  \/ SetCharacteristic /\ UNCHANGED << vars, enableVars, connectorVars, notifyVars, matchVars, decodeVars, pollVars >>
  \/ StartPolling /\ UNCHANGED << vars, enableVars, connectorVars, notifyVars, matchVars, decodeVars, pollVars >>
  \/ \E p \in PollTasks : startPolling(p) /\ UNCHANGED << vars, enableVars, connectorVars, notifyVars, matchVars, decodeVars, pollVars >>
  \/ \E p \in PollTasks : PollingStops(p) /\ UNCHANGED << vars, enableVars, connectorVars, notifyVars, matchVars, decodeVars, pollVars >>
  \/ Stop /\ UNCHANGED << vars, enableVars, connectorVars, notifyVars, matchVars, decodeVars, pollVars >>
  \/ \E data \in SidePayloads : ProcessNotification(data) /\ UNCHANGED << vars, enableVars, connectorVars, notifyVars, matchVars, decodeVars, pollVars >>
  \/ \E p \in PollTasks, data \in SidePayloads : pollDeviceState(p, data) /\ UNCHANGED << vars, enableVars, connectorVars, notifyVars, matchVars, decodeVars, pollVars >>
  \/ \E t \in SideTasks : SetCurrentSide(t) /\ UNCHANGED << vars, enableVars, connectorVars, notifyVars, matchVars, decodeVars, pollVars >>
  \/ \E t \in SideTasks : CompareSides(t) /\ UNCHANGED << vars, enableVars, connectorVars, notifyVars, matchVars, decodeVars, pollVars >>

SpecDevice == Init /\ [][NextDevice]_allVars

=============================================================================
